---------------------------- MODULE Spec2Model ----------------------------
(***************************************************************************)
(* Model of the conversational orchestration layer of Agentic-Tutor:       *)
(* HostAgent (src/agents/host_agent.py) on top of the chat repository      *)
(* (src/repositories/chat_repo.py), the persona repository                 *)
(* (src/repositories/persona_repo.py) and the chat model service.          *)
(*                                                                         *)
(* Texts are sequences of symbols (one symbol stands for a run of          *)
(* characters), so that concatenation, joining and slicing are computed.   *)
(***************************************************************************)
EXTENDS Integers, Sequences, FiniteSets, TLC

\* ------------------------------------------------------------------------
\* Bounds of the model
\* ------------------------------------------------------------------------
MaxTurns == 2
MaxChunks == 2
MaxFaults == 3
CountCap == 2
MaxSmall == 3   \* short histories hold 0..MaxSmall rows
MaxRequests == 3  \* requests handled by the user router, one after the other
MaxOverlap == 2   \* requests of the user router that overlap
MaxOver == 2    \* rows beyond the history limit, symbols beyond the text cap

\* ------------------------------------------------------------------------
\* Program constants
\* ------------------------------------------------------------------------
MaxAttempts == 3
history_limit == 100
msg_words_limit == 10000

Agents == {"a1"}

NoneVal == "None"
NoId == 0
EmptyText == <<>>

SessionKeys == {"k1"}
UserIds == {"u1", "u2"}

\* instructions the transport lets through (ChatReq.validate_instruction and
\* sse_stream reject an empty one); every turn brings a new instruction
Instruction(k) == <<"q", k>>
Instructions == {Instruction(k) : k \in 1..MaxTurns}

FallbackPersona == <<"no-profile-nudge">>
GivenPersona == <<"given-persona">>

\* ------------------------------------------------------------------------
\* Text helpers (python str operations)
\* ------------------------------------------------------------------------
\* sep.join(parts), computed by halves
RECURSIVE Join(_, _)
Join(parts, sep) ==
  IF parts = <<>> THEN EmptyText
  ELSE IF Len(parts) = 1 THEN parts[1]
  ELSE LET half == Len(parts) \div 2
       IN Join(SubSeq(parts, 1, half), sep) \o sep
          \o Join(SubSeq(parts, half + 1, Len(parts)), sep)

\* variant: the head of the text is kept
TailSlice_Head(text, limit) ==
  IF limit = 0 \/ Len(text) <= limit THEN text
  ELSE SubSeq(text, 1, limit)

\* text[-limit:]
TailSlice(text, limit) ==
  IF limit = 0 \/ Len(text) <= limit THEN text
  ELSE SubSeq(text, Len(text) - limit + 1, Len(text))

\* list.reverse()
Reverse(s) == [i \in 1..Len(s) |-> s[Len(s) + 1 - i]]

Range(s) == {s[i] : i \in 1..Len(s)}

\* ------------------------------------------------------------------------
\* Model Service values (agentscope ChatResponse)
\* ------------------------------------------------------------------------
NoUsage == [present |-> FALSE, input_tokens |-> 0, output_tokens |-> 0, time |-> 0]
SomeUsage == [present |-> TRUE, input_tokens |-> 7, output_tokens |-> 5, time |-> 1]

TextBlock(t) == [type |-> "text", has_text |-> TRUE, text |-> t]
ThinkingBlock == [type |-> "thinking", has_text |-> FALSE, text |-> EmptyText]

ContentList(blocks) == [kind |-> "list", blocks |-> blocks, str |-> EmptyText]
ContentStr(t) == [kind |-> "str", blocks |-> <<>>, str |-> t]

ChatResponse(content, usage) == [is_none |-> FALSE, content |-> content, usage |-> usage]
NoResponse == [is_none |-> TRUE, content |-> ContentList(<<>>), usage |-> NoUsage]

ChatResponses ==
  { ChatResponse(ContentList(<<TextBlock(<<"r1">>)>>), SomeUsage),
    ChatResponse(ContentList(<<TextBlock(EmptyText)>>), SomeUsage),
    ChatResponse(ContentList(<<ThinkingBlock, TextBlock(<<"r1">>)>>), NoUsage),
    ChatResponse(ContentStr(<<"r1">>), NoUsage),
    ChatResponse(ContentList(<<>>), NoUsage) }

\* what a non-streaming model call may return
ModelResults == ChatResponses \cup {NoResponse}

\* the chunks a streaming model call may deliver
StreamChunks ==
  { ChatResponse(ContentList(<<TextBlock(<<"r1">>)>>), SomeUsage),
    ChatResponse(ContentList(<<TextBlock(EmptyText)>>), NoUsage),
    ChatResponse(ContentStr(<<"r2">>), NoUsage) }

\* python truthiness of a response object
Truthy(response) == ~response.is_none

\* python truthiness of response.content
ContentTruthy(content) ==
  IF content.kind = "list" THEN content.blocks # <<>> ELSE content.str # EmptyText

\* HostAgent._res_to_text
res_to_text(response) ==
  IF ~response.is_none /\ ContentTruthy(response.content)
  THEN IF response.content.kind = "list"
       THEN IF response.content.blocks[1].has_text
            THEN response.content.blocks[1].text
            ELSE EmptyText
       ELSE response.content.str
  ELSE EmptyText

\* ------------------------------------------------------------------------
\* State
\* ------------------------------------------------------------------------
VARIABLES
  chat_sessions,   \* table chat_sessions: sequence of rows, id = position
  chat_messages,   \* table chat_messages: sequence of rows, id = position
  personas,        \* table personas: set of rows
  users,           \* table users: the ids of the registered users
  requests,        \* requests[r]: the frame of the persona request r of the user router
  now,             \* store clock (CURRENT_TIMESTAMP, resolution one second)
  agent,           \* agent[a]: the fields of HostAgent instance a
  call,            \* call[a]: the frame of the reply/stream_reply call in flight
  outcome,         \* outcome[a]: what the caller of the last call received
  obs,             \* obs[a]: observation counters of collaborator calls
  turns,           \* number of reply/stream_reply calls made so far
  faults           \* number of collaborator failures so far

vars == <<chat_sessions, chat_messages, personas, users, requests, now, agent, call,
          outcome, obs,
          turns, faults>>

\* a counter that stops counting at CountCap
Count(n) == IF n < CountCap THEN n + 1 ELSE n


\* ------------------------------------------------------------------------
\* Persona Store (src/repositories/persona_repo.py, src/db/models.py)
\* ------------------------------------------------------------------------
PersonaRow(id, user, dflt) == [id |-> id, user_id |-> user, is_default |-> dflt]

\* u1 has a default persona and another one, u2 has none that is default
PersonaTable ==
  { PersonaRow("p1", "u1", TRUE), PersonaRow("p2", "u1", FALSE),
    PersonaRow("p3", "u2", FALSE) }

\* Persona.compile_profile_prompt: the flattened profile text of a persona
compile_profile_prompt(p) == <<"profile-of", p.id>>

\* persona_repo.get_persona
get_persona(uid) == {p \in personas : p.user_id = uid}

\* persona_repo.get_persona_pid: the set holds the row, or is empty (None)
get_persona_pid(pid) == {p \in personas : p.id = pid}

\* ------------------------------------------------------------------------
\* Conversation Store (src/repositories/chat_repo.py, src/db/models.py)
\* ------------------------------------------------------------------------
ChatSessionRow(id, key, user) ==
  [id |-> id, session_key |-> key, user_id |-> user, last_msg_id |-> NoId]

\* variant: the row ignores the usage it is given
ChatMessageRow_UsageDropped(id, pk, role, content, usage, meta, t) ==
  [id |-> id, session_id |-> pk, role |-> role, content |-> content,
   name |-> NoneVal, input_tokens |-> 0, output_tokens |-> 0, response_time |-> 0,
   has_usage |-> FALSE, meta |-> meta, created_at |-> t]

\* variant: the row is filed under another session
ChatMessageRow_OtherSession(id, pk, role, content, usage, meta, t) ==
  [id |-> id, session_id |-> pk + 1, role |-> role, content |-> content,
   name |-> NoneVal,
   input_tokens |-> IF usage.present THEN usage.input_tokens ELSE 0,
   output_tokens |-> IF usage.present THEN usage.output_tokens ELSE 0,
   response_time |-> IF usage.present THEN usage.time ELSE 0,
   has_usage |-> usage.present,
   meta |-> meta, created_at |-> t]

\* models.ChatMessage as add_message fills it (chat_repo.py lines 70-79)
ChatMessageRow(id, pk, role, content, usage, meta, t) ==
  [id |-> id, session_id |-> pk, role |-> role, content |-> content,
   name |-> NoneVal,
   input_tokens |-> IF usage.present THEN usage.input_tokens ELSE 0,
   output_tokens |-> IF usage.present THEN usage.output_tokens ELSE 0,
   response_time |-> IF usage.present THEN usage.time ELSE 0,
   has_usage |-> usage.present,
   meta |-> meta, created_at |-> t]

\* select(ChatSession).where(session_key == key): ids of the matching rows
SessionsWithKey(key) ==
  {i \in 1..Len(chat_sessions) : chat_sessions[i].session_key = key}

\* rows of one session
MessagesOf(pk) == {m \in Range(chat_messages) : m.session_id = pk}

\* ORDER BY created_at DESC: every order of the rows the clause allows
\* (rows with equal created_at come in an order the store chooses)
\* (the later half of the seconds comes first; the rows of one second come
\* in any order)
RECURSIVE OrderedDesc(_)
OrderedDesc(S) ==
  IF S = {} THEN {<<>>}
  ELSE LET times == {m.created_at : m \in S}
           newest == CHOOSE t \in times : \A u \in times : u <= t
           oldest == CHOOSE t \in times : \A u \in times : t <= u
           mid == (newest + oldest + 1) \div 2
       IN IF newest = oldest
          THEN UNION { { <<m>> \o rest : rest \in OrderedDesc(S \ {m}) } : m \in S }
          ELSE { late \o early :
                   late \in OrderedDesc({m \in S : m.created_at >= mid}),
                   early \in OrderedDesc({m \in S : m.created_at < mid}) }

\* variant: the rows are returned as selected, newest first
get_last_messages_Unreversed(pk, limit) ==
  { SubSeq(o, 1, IF Len(o) < limit THEN Len(o) ELSE limit) :
      o \in OrderedDesc(MessagesOf(pk)) }

\* chat_repo.get_last_messages: the possible results
get_last_messages(pk, limit) ==
  { Reverse(SubSeq(o, 1, IF Len(o) < limit THEN Len(o) ELSE limit)) :
      o \in OrderedDesc(MessagesOf(pk)) }

\* ------------------------------------------------------------------------
\* HostAgent: pure parts
\* ------------------------------------------------------------------------
\* the persona arguments of the constructor: user_id, persona_id, persona
PersonaArgs ==
  { <<NoneVal, NoneVal, EmptyText>>, <<"u1", NoneVal, EmptyText>>,
    <<"u2", NoneVal, EmptyText>>, <<"u1", "p2", EmptyText>>,
    <<NoneVal, "p9", EmptyText>>, <<"u1", NoneVal, GivenPersona>> }

\* the persona arguments used together with a session key
SessionPersonaArgs == { <<NoneVal, NoneVal, EmptyText>>, <<"u1", NoneVal, EmptyText>> }

AgentConfig(s, k, p) ==
  [stream |-> s, session_id |-> k, user_id |-> p[1], persona_id |-> p[2],
   persona |-> p[3]]

AgentConfigs ==
  { AgentConfig(s, NoneVal, p) : s \in BOOLEAN, p \in PersonaArgs }
  \cup { AgentConfig(s, k, p) : s \in BOOLEAN, k \in SessionKeys, p \in SessionPersonaArgs }

\* HostAgent.__init__
NewAgent(cfg) ==
  [stream |-> cfg.stream, user_id |-> cfg.user_id, session_id |-> cfg.session_id,
   persona_id |-> cfg.persona_id, persona |-> cfg.persona,
   agent_name |-> "HostAgent", model_name |-> "qwen3-max",
   chat_session_pk |-> NoId, db_session_pk |-> NoId, persona_loaded |-> FALSE]

\* HostAgent._system_prompt
system_prompt(ag) == <<"rules-of", ag.agent_name>>

PromptMessage(role, name, content) == [role |-> role, name |-> name, content |-> content]

\* HostAgent._load_memory_text, lines 173-178: render the fetched rows
render_memory(history) ==
  Join([i \in 1..Len(history) |-> <<"[", history[i].role, "] ">> \o history[i].content],
       <<"\n">>)

\* variant: the persona block is left out
build_messages_NoPersonaBlock(ag, memory_text, instructions) ==
  <<PromptMessage("system", NoneVal, system_prompt(ag))>>
  \o (IF memory_text # EmptyText
      THEN <<PromptMessage("assistant", "memory",
                           <<"memory-header">> \o TailSlice(memory_text, msg_words_limit))>>
      ELSE <<>>)
  \o <<PromptMessage("user", NoneVal, instructions)>>

\* variant: the instruction is capped like the persona and the memory text
build_messages_InstructionCapped(ag, memory_text, instructions) ==
  <<PromptMessage("system", NoneVal, system_prompt(ag))>>
  \o (IF ag.persona # EmptyText
      THEN <<PromptMessage("assistant", "persona",
                           <<"persona-header">> \o TailSlice(ag.persona, msg_words_limit))>>
      ELSE <<>>)
  \o (IF memory_text # EmptyText
      THEN <<PromptMessage("assistant", "memory",
                           <<"memory-header">> \o TailSlice(memory_text, msg_words_limit))>>
      ELSE <<>>)
  \o <<PromptMessage("user", NoneVal, TailSlice(instructions, msg_words_limit))>>

\* HostAgent._build_messages, given the memory text
build_messages(ag, memory_text, instructions) ==
  <<PromptMessage("system", NoneVal, system_prompt(ag))>>
  \o (IF ag.persona # EmptyText
      THEN <<PromptMessage("assistant", "persona",
                           <<"persona-header">> \o TailSlice(ag.persona, msg_words_limit))>>
      ELSE <<>>)
  \o (IF memory_text # EmptyText
      THEN <<PromptMessage("assistant", "memory",
                           <<"memory-header">> \o TailSlice(memory_text, msg_words_limit))>>
      ELSE <<>>)
  \o <<PromptMessage("user", NoneVal, instructions)>>

\* variant: the content test is inverted
persist_guard_EmptyOnly(ag, content) == ag.session_id # NoneVal /\ content = EmptyText

\* variant: the content test is left out
persist_guard_AnyContent(ag, content) == ag.session_id # NoneVal

\* variant: no guard at all
persist_guard_Always(ag, content) == TRUE

\* HostAgent._persist_message, line 190: the guard that lets a write proceed
persist_guard(ag, content) == ag.session_id # NoneVal /\ content # EmptyText

\* HostAgent._persist_message, lines 196-199
message_meta(ag) == [agent_anme |-> ag.agent_name, model_name |-> ag.model_name]

\* ------------------------------------------------------------------------
\* The call frame of reply / stream_reply
\* ------------------------------------------------------------------------
IdleFrame ==
  [pc |-> "idle", stage |-> "none", attempt |-> 0, instructions |-> EmptyText,
   session_pk |-> NoId, history |-> <<>>, messages |-> <<>>,
   response |-> NoResponse, last_chunk |-> NoResponse, yielded |-> <<>>,
   content |-> EmptyText, usage |-> NoUsage, msg_id |-> NoId]

\* variant: a later attempt resumes at the model invocation
AttemptFrame_Resumed(instructions, n) ==
  [IdleFrame EXCEPT !.pc = IF n = 1 THEN "persona" ELSE "model",
                    !.attempt = n, !.instructions = instructions]

\* the frame at the start of attempt n of a call
AttemptFrame(instructions, n) ==
  [IdleFrame EXCEPT !.pc = "persona", !.attempt = n, !.instructions = instructions]

NoOutcome == [kind |-> "none", error |-> NoneVal, cause |-> NoneVal,
              response |-> NoResponse, chunks |-> <<>>]

\* counters kept per instance (queries, writes) and per call (the rest)
NewObs == [calls |-> 0, persona_queries |-> 0, session_queries |-> 0, history_queries |-> 0,
           message_writes |-> 0,
           model_calls |-> 0, model_failures |-> 0, raised |-> 0, start_len |-> 0,
           instructions |-> EmptyText, last_result |-> NoResponse]

\* the frame after _persist_message(role, ...) has returned
AfterPersist(f, role) ==
  IF role = "user" THEN [f EXCEPT !.pc = "model", !.stage = "none"]
  ELSE [f EXCEPT !.pc = "return", !.stage = "none"]

\* variant: the user message is written by the first attempt only
GoPersist_UserOnce(ag, f, role, content, usage) ==
  IF (role = "user" /\ f.attempt > 1) \/ ~persist_guard(ag, content)
  THEN AfterPersist(f, role)
  ELSE [f EXCEPT !.pc = "session", !.stage = role, !.content = content, !.usage = usage]

\* variant: only the assistant message is written
GoPersist_AssistantOnly(ag, f, role, content, usage) ==
  IF role = "user" \/ ~persist_guard(ag, content) THEN AfterPersist(f, role)
  ELSE [f EXCEPT !.pc = "session", !.stage = role, !.content = content, !.usage = usage]

\* variant: the user message is written in the place of the assistant message
GoPersist_UserDeferred(ag, f, role, content, usage) ==
  IF role = "user" THEN AfterPersist(f, role)
  ELSE [f EXCEPT !.pc = "session", !.stage = "user", !.content = f.instructions,
                 !.usage = NoUsage]

\* entering _persist_message(role, content, usage): lines 190-192
GoPersist(ag, f, role, content, usage) ==
  IF persist_guard(ag, content)
  THEN [f EXCEPT !.pc = "session", !.stage = role, !.content = content, !.usage = usage]
  ELSE AfterPersist(f, role)

\* the frame after _ensure_session_pk has returned pk to its caller
AfterSession(ag, f, pk) ==
  IF f.stage = "memory"
  THEN IF pk = NoId
       THEN GoPersist(ag, [f EXCEPT !.messages = build_messages(ag, EmptyText, f.instructions)],
                      "user", f.instructions, NoUsage)
       ELSE [f EXCEPT !.pc = "history", !.session_pk = pk]
  ELSE IF pk = NoId
       THEN AfterPersist(f, f.stage)
       ELSE [f EXCEPT !.pc = "insert", !.session_pk = pk]


\* ------------------------------------------------------------------------
\* The retry decorator (tenacity) around reply / stream_reply
\* ------------------------------------------------------------------------
\* variant: one attempt more
StopAfterAttempt_OneMore(n) == n >= MaxAttempts + 1

\* variant: the loop gives up after the second attempt
StopAfterAttempt_Two(n) == n >= 2

\* stop_after_attempt(3): no further attempt after attempt number n
StopAfterAttempt(n) == n >= MaxAttempts

\* retry() re-runs a coroutine function (reply); stream_reply is an async
\* generator function, which retry() wraps as a plain function: the call
\* returns the generator at once and its body runs outside the retry loop
RetryCovers(ag) == ~ag.stream

\* the error the caller gets when the attempts are exhausted: retry() is
\* used without reraise=True, so the last error is wrapped in a RetryError
ExhaustedError(err) == "RetryError"

\* variant: an exception in the generator ends the stream like its normal end
Raised_SilentEnd(a, err, o) ==
  LET f == call[a] IN
  /\ faults < MaxFaults
  /\ faults' = faults + 1
  /\ obs' = [obs EXCEPT ![a] = [o EXCEPT !.raised = @ + 1]]
  /\ IF ~RetryCovers(agent[a])
     THEN /\ call' = [call EXCEPT ![a] = IdleFrame]
          /\ outcome' = [outcome EXCEPT ![a] =
                           [NoOutcome EXCEPT !.kind = "completed", !.chunks = f.yielded]]
     ELSE IF ~StopAfterAttempt(f.attempt)
          THEN /\ call' = [call EXCEPT ![a] =
                             [IdleFrame EXCEPT !.pc = "wait", !.attempt = f.attempt,
                                               !.instructions = f.instructions]]
               /\ UNCHANGED outcome
          ELSE /\ call' = [call EXCEPT ![a] = IdleFrame]
               /\ outcome' = [outcome EXCEPT ![a] =
                                [NoOutcome EXCEPT !.kind = "error",
                                                  !.error = ExhaustedError(err),
                                                  !.cause = err]]

\* an exception err leaves the pipeline of a; o is obs[a] after the step
Raised(a, err, o) ==
  LET f == call[a] IN
  /\ faults < MaxFaults
  /\ faults' = faults + 1
  /\ obs' = [obs EXCEPT ![a] = [o EXCEPT !.raised = @ + 1]]
  /\ IF ~RetryCovers(agent[a])
     THEN /\ call' = [call EXCEPT ![a] = IdleFrame]
          /\ outcome' = [outcome EXCEPT ![a] =
                           [NoOutcome EXCEPT !.kind = "error", !.error = err,
                                             !.cause = err, !.chunks = f.yielded]]
     ELSE IF ~StopAfterAttempt(f.attempt)
          THEN /\ call' = [call EXCEPT ![a] =
                             [IdleFrame EXCEPT !.pc = "wait", !.attempt = f.attempt,
                                               !.instructions = f.instructions]]
               /\ UNCHANGED outcome
          ELSE /\ call' = [call EXCEPT ![a] = IdleFrame]
               /\ outcome' = [outcome EXCEPT ![a] =
                                [NoOutcome EXCEPT !.kind = "error",
                                                  !.error = ExhaustedError(err),
                                                  !.cause = err]]

\* ------------------------------------------------------------------------
\* Initial state: an empty store and one freshly constructed instance
\* ------------------------------------------------------------------------
Init ==
  /\ chat_sessions = <<>>
  /\ chat_messages = <<>>
  /\ personas = PersonaTable
  /\ users = UserIds
  /\ requests = <<>>
  /\ now = 0
  /\ agent \in [Agents -> {NewAgent(cfg) : cfg \in AgentConfigs}]
  /\ call = [a \in Agents |-> IdleFrame]
  /\ outcome = [a \in Agents |-> NoOutcome]
  /\ obs = [a \in Agents |-> NewObs]
  /\ turns = 0
  /\ faults = 0

\* ------------------------------------------------------------------------
\* Actions
\* ------------------------------------------------------------------------
\* a new HostAgent for the same client takes the place of instance a
\* (deps.get_agent builds one per request)
Construct(a) ==
  /\ call[a].pc = "idle"
  /\ turns < MaxTurns
  /\ obs[a].calls > 0
  /\ agent' = [agent EXCEPT ![a] =
                 NewAgent(AgentConfig(@.stream, @.session_id,
                                      <<@.user_id, @.persona_id,
                                        IF @.persona = GivenPersona THEN GivenPersona
                                        ELSE EmptyText>>))]
  /\ obs' = [obs EXCEPT ![a] = NewObs]
  /\ outcome' = [outcome EXCEPT ![a] = NoOutcome]
  /\ UNCHANGED <<chat_sessions, chat_messages, personas, users, requests, now, call, turns, faults>>

\* the caller invokes reply (stream = False) or stream_reply (stream = True)
ReplyCall(a, instructions) ==
  /\ call[a].pc = "idle"
  /\ turns < MaxTurns
  /\ instructions = Instruction(turns + 1)
  /\ call' = [call EXCEPT ![a] = AttemptFrame(instructions, 1)]
  /\ obs' = [obs EXCEPT ![a] = [@ EXCEPT !.calls = @ + 1,
                                         !.model_calls = 0, !.model_failures = 0,
                                         !.raised = 0,
                                         !.start_len = Len(chat_messages),
                                         !.instructions = instructions,
                                         !.last_result = NoResponse]]
  /\ outcome' = [outcome EXCEPT ![a] = NoOutcome]
  /\ turns' = turns + 1
  /\ UNCHANGED <<chat_sessions, chat_messages, personas, users, requests, now, agent, faults>>

\* _ensure_persona_text asks the Persona Store
PersonaQueried(ag) ==
  ag.persona = EmptyText /\ (ag.user_id # NoneVal \/ ag.persona_id # NoneVal)

\* variant: the user's default persona wins over an explicit persona id
ResolvedPersona_DefaultFirst(ag) ==
  LET defaults == {p \in get_persona(ag.user_id) : p.is_default}
      found == get_persona_pid(ag.persona_id)
  IN IF ag.user_id # NoneVal /\ defaults # {}
     THEN {compile_profile_prompt(p) : p \in defaults}
     ELSE IF ag.persona_id # NoneVal /\ found # {}
          THEN {compile_profile_prompt(p) : p \in found}
          ELSE {FallbackPersona}

\* _ensure_persona_text, lines 121-139: the texts the try block may produce
ResolvedPersona(ag) ==
  LET defaults == {p \in get_persona(ag.user_id) : p.is_default}
      found == get_persona_pid(ag.persona_id)
  IN IF ag.user_id # NoneVal /\ ag.persona_id = NoneVal /\ defaults # {}
     THEN {compile_profile_prompt(p) : p \in defaults}
     ELSE IF ag.persona_id # NoneVal /\ found # {}
          THEN {compile_profile_prompt(p) : p \in found}
          ELSE {FallbackPersona}

\* the latch of _ensure_persona_text, lines 115-117
PersonaLatched(ag) == ag.persona_loaded

\* variant: the resolution sets the latch and keeps no text
PersonaResolved_TextDropped(ag, text) == [ag EXCEPT !.persona_loaded = TRUE]

\* the instance after a resolution that ended without an exception
PersonaResolved(ag, text) == [ag EXCEPT !.persona_loaded = TRUE, !.persona = text]

\* variant: the failure path leaves the instance as it found it
PersonaFailed_Unlatched(ag) == ag

\* variant: the handler sets no text
PersonaFailed_NoText(ag) == [ag EXCEPT !.persona_loaded = TRUE]

\* the instance after a resolution whose store query or compilation raised:
\* the latch was set on entry (line 117), the handler sets the fallback text
PersonaFailed(ag) == [ag EXCEPT !.persona_loaded = TRUE, !.persona = FallbackPersona]

\* the frame once _ensure_persona_text has returned: _build_messages starts
AfterPersona(f) == [f EXCEPT !.pc = "session", !.stage = "memory"]

EnsurePersona(a) ==
  LET ag == agent[a] IN
  /\ call[a].pc = "persona"
  /\ call' = [call EXCEPT ![a] = AfterPersona(@)]
  /\ \/ /\ PersonaLatched(ag)
        /\ UNCHANGED <<agent, obs, faults>>
     \/ /\ ~PersonaLatched(ag)
        /\ ag.persona # EmptyText
        /\ agent' = [agent EXCEPT ![a] = PersonaResolved(ag, ag.persona)]
        /\ UNCHANGED <<obs, faults>>
     \/ /\ ~PersonaLatched(ag)
        /\ ag.persona = EmptyText
        /\ \E text \in ResolvedPersona(ag) :
             agent' = [agent EXCEPT ![a] = PersonaResolved(ag, text)]
        /\ obs' = [obs EXCEPT ![a].persona_queries =
                     IF PersonaQueried(ag) THEN Count(@) ELSE @]
        /\ UNCHANGED faults
     \/ /\ ~PersonaLatched(ag)
        /\ PersonaQueried(ag)
        /\ agent' = [agent EXCEPT ![a] = PersonaFailed(ag)]
        /\ obs' = [obs EXCEPT ![a].persona_queries = Count(@)]
        /\ faults < MaxFaults
        /\ faults' = faults + 1
  /\ UNCHANGED <<chat_sessions, chat_messages, personas, users, requests, now, outcome, turns>>


\* _ensure_session_pk, lines 155-161: the instance keeps the id it fetched
\* (it is stored in _db_session_pk; line 152 reads _chat_session_pk)
StoreSessionPk(ag, id) == [ag EXCEPT !.db_session_pk = id]

\* variant: the test for a missing session key is left out
SessionShortcut_NoKeyTest(ag) == ag.chat_session_pk # NoId

\* _ensure_session_pk returns without asking the store (lines 150-153)
SessionShortcut(ag) == ag.session_id = NoneVal \/ ag.chat_session_pk # NoId

\* _ensure_session_pk up to the SELECT of get_or_create_session
EnsureSession(a) ==
  LET ag == agent[a]
      f == call[a]
      rows == SessionsWithKey(ag.session_id)
      queried == [obs[a] EXCEPT !.session_queries = Count(@)]
  IN
  /\ f.pc = "session"
  /\ \/ /\ SessionShortcut(ag)
        /\ call' = [call EXCEPT ![a] =
                      AfterSession(ag, f, IF ag.session_id = NoneVal THEN NoId
                                          ELSE ag.chat_session_pk)]
        /\ UNCHANGED <<agent, obs, outcome, faults>>
     \/ /\ ~SessionShortcut(ag)
        /\ obs' = [obs EXCEPT ![a] = queried]
        /\ IF rows # {}
           THEN \E id \in rows :
                  /\ agent' = [agent EXCEPT ![a] = StoreSessionPk(ag, id)]
                  /\ call' = [call EXCEPT ![a] = AfterSession(ag, f, id)]
           ELSE /\ call' = [call EXCEPT ![a].pc = "session_create"]
                /\ UNCHANGED agent
        /\ UNCHANGED <<outcome, faults>>
     \/ /\ ~SessionShortcut(ag)
        /\ Raised(a, "SessionError", queried)
        /\ UNCHANGED agent
  /\ UNCHANGED <<chat_sessions, chat_messages, personas, users, requests, now, turns>>

\* variant: the store does not enforce the uniqueness of session_key
SessionCreate_NoUnique(a) ==
  LET ag == agent[a]
      f == call[a]
      id == Len(chat_sessions) + 1
  IN
  /\ f.pc = "session_create"
  /\ \/ /\ chat_sessions' =
             Append(chat_sessions, ChatSessionRow(id, ag.session_id, ag.user_id))
        /\ agent' = [agent EXCEPT ![a] = StoreSessionPk(ag, id)]
        /\ call' = [call EXCEPT ![a] = AfterSession(ag, f, id)]
        /\ UNCHANGED <<obs, outcome, faults>>
     \/ /\ Raised(a, "SessionError", obs[a])
        /\ UNCHANGED <<agent, chat_sessions>>
  /\ UNCHANGED <<chat_messages, personas, users, requests, now, turns>>

\* variant: a commit that meets the key returns the row that holds it
SessionCreate_ReturnsExisting(a) ==
  LET ag == agent[a]
      f == call[a]
      id == Len(chat_sessions) + 1
  IN
  /\ f.pc = "session_create"
  /\ \/ IF SessionsWithKey(ag.session_id) # {}
        THEN /\ \E pk \in SessionsWithKey(ag.session_id) :
                  /\ agent' = [agent EXCEPT ![a] = StoreSessionPk(ag, pk)]
                  /\ call' = [call EXCEPT ![a] = AfterSession(ag, f, pk)]
             /\ UNCHANGED <<chat_sessions, obs, outcome, faults>>
        ELSE /\ chat_sessions' =
                  Append(chat_sessions, ChatSessionRow(id, ag.session_id, ag.user_id))
             /\ agent' = [agent EXCEPT ![a] = StoreSessionPk(ag, id)]
             /\ call' = [call EXCEPT ![a] = AfterSession(ag, f, id)]
             /\ UNCHANGED <<obs, outcome, faults>>
     \/ /\ Raised(a, "SessionError", obs[a])
        /\ UNCHANGED <<agent, chat_sessions>>
  /\ UNCHANGED <<chat_messages, personas, users, requests, now, turns>>

\* get_or_create_session, lines 32-41: INSERT of the new row and commit
\* (session_key is unique: the commit fails when the key exists by then)
SessionCreate(a) ==
  LET ag == agent[a]
      f == call[a]
      id == Len(chat_sessions) + 1
  IN
  /\ f.pc = "session_create"
  /\ \/ IF SessionsWithKey(ag.session_id) # {}
        THEN /\ Raised(a, "IntegrityError", obs[a])
             /\ UNCHANGED <<agent, chat_sessions>>
        ELSE /\ chat_sessions' =
                  Append(chat_sessions, ChatSessionRow(id, ag.session_id, ag.user_id))
             /\ agent' = [agent EXCEPT ![a] = StoreSessionPk(ag, id)]
             /\ call' = [call EXCEPT ![a] = AfterSession(ag, f, id)]
             /\ UNCHANGED <<obs, outcome, faults>>
     \/ /\ Raised(a, "SessionError", obs[a])
        /\ UNCHANGED <<agent, chat_sessions>>
  /\ UNCHANGED <<chat_messages, personas, users, requests, now, turns>>

\* _load_memory_text from get_last_messages on, then the rest of
\* _build_messages and the entry of _persist_message("user", ...)
LoadMemory(a) ==
  LET ag == agent[a]
      f == call[a]
      queried == [obs[a] EXCEPT !.history_queries = Count(@)]
  IN
  /\ f.pc = "history"
  /\ \/ /\ \E history \in get_last_messages(f.session_pk, history_limit) :
             call' = [call EXCEPT ![a] =
                        GoPersist(ag,
                                  [f EXCEPT !.history = history,
                                            !.messages =
                                               build_messages(ag, render_memory(history),
                                                              f.instructions)],
                                  "user", f.instructions, NoUsage)]
        /\ obs' = [obs EXCEPT ![a] = queried]
        /\ UNCHANGED <<outcome, faults>>
     \/ Raised(a, "HistoryError", queried)
  /\ UNCHANGED <<chat_sessions, chat_messages, personas, users, requests, now, agent, turns>>

\* add_message, lines 69-82: INSERT of the message row and commit
\* (in this specification every insert falls into a later second than the
\* one before it, so created_at orders the rows as they were inserted)
AddMessageInsert(a) ==
  LET ag == agent[a]
      f == call[a]
      id == Len(chat_messages) + 1
  IN
  /\ f.pc = "insert"
  /\ \/ /\ chat_messages' =
             Append(chat_messages,
                    ChatMessageRow(id, f.session_pk, f.stage, f.content, f.usage,
                                   message_meta(ag), now + 1))
        /\ now' = now + 1
        /\ call' = [call EXCEPT ![a].pc = "pointer", ![a].msg_id = id]
        /\ obs' = [obs EXCEPT ![a].message_writes = Count(@)]
        /\ UNCHANGED <<outcome, faults>>
     \/ /\ Raised(a, "InsertError", obs[a])
        /\ UNCHANGED <<chat_messages, now>>
  /\ UNCHANGED <<chat_sessions, personas, users, requests, agent, turns>>

\* variant: the UPDATE sets the pointer to the id after the inserted message's
PointerUpdate_NextId(sessions, pk, id) ==
  [i \in 1..Len(sessions) |->
     IF sessions[i].id = pk THEN [sessions[i] EXCEPT !.last_msg_id = id + 1] ELSE sessions[i]]

\* variant: the UPDATE commits without touching the pointer
PointerUpdate_NoEffect(sessions, pk, id) == sessions

\* add_message, lines 85-89: UPDATE chat_sessions SET last_msg_id WHERE id = pk
PointerUpdate(sessions, pk, id) ==
  [i \in 1..Len(sessions) |->
     IF sessions[i].id = pk THEN [sessions[i] EXCEPT !.last_msg_id = id] ELSE sessions[i]]

\* add_message, lines 84-92: UPDATE of the session's last_msg_id and commit
AddMessagePointer(a) ==
  LET f == call[a] IN
  /\ f.pc = "pointer"
  /\ \/ /\ chat_sessions' = PointerUpdate(chat_sessions, f.session_pk, f.msg_id)
        /\ call' = [call EXCEPT ![a] = AfterPersist(f, f.stage)]
        /\ UNCHANGED <<obs, outcome, faults>>
     \/ /\ Raised(a, "PointerError", obs[a])
        /\ UNCHANGED chat_sessions
  /\ UNCHANGED <<chat_messages, personas, users, requests, now, agent, turns>>

\* reply, lines 221-226, and stream_reply, line 244: await self.model(messages)
InvokeModel(a) ==
  LET ag == agent[a]
      f == call[a]
      invoked == [obs[a] EXCEPT !.model_calls = @ + 1]
  IN
  /\ f.pc = "model"
  /\ \/ /\ ~ag.stream
        /\ \E r \in ModelResults :
             /\ call' = [call EXCEPT ![a] =
                        IF Truthy(r)
                        THEN GoPersist(ag, [f EXCEPT !.response = r], "assistant",
                                       res_to_text(r), NoUsage)
                        ELSE [f EXCEPT !.response = r, !.pc = "return"]]
             /\ obs' = [obs EXCEPT ![a] = [invoked EXCEPT !.last_result = r]]
        /\ UNCHANGED <<outcome, faults>>
     \/ /\ ag.stream
        /\ call' = [call EXCEPT ![a].pc = "chunks"]
        /\ obs' = [obs EXCEPT ![a] = invoked]
        /\ UNCHANGED <<outcome, faults>>
     \/ Raised(a, "ModelError", [invoked EXCEPT !.model_failures = @ + 1])
  /\ UNCHANGED <<chat_sessions, chat_messages, personas, users, requests, now, agent, turns>>

\* the texts of the chunks, one after the other
RECURSIVE ConcatTexts(_)
ConcatTexts(chunks) ==
  IF chunks = <<>> THEN EmptyText
  ELSE res_to_text(Head(chunks)) \o ConcatTexts(Tail(chunks))

\* variant: the texts of all chunks are collected
StreamText_Concatenated(f) == ConcatTexts(f.yielded)

\* stream_reply, line 250: the text that is persisted for the stream
StreamText(f) == res_to_text(f.last_chunk)

\* variant: the new chunk is handed over ahead of the earlier ones
Yielded_Reordered(yielded, chunk) == <<chunk>> \o yielded

\* stream_reply, line 248: what the consumer has received once chunk is yielded
Yielded(yielded, chunk) == Append(yielded, chunk)

\* stream_reply, lines 246-256: one step of the async for loop, or its end
NextChunk(a) ==
  LET ag == agent[a]
      f == call[a]
  IN
  /\ f.pc = "chunks"
  /\ \/ /\ Len(f.yielded) < MaxChunks
        /\ \E chunk \in StreamChunks :
             call' = [call EXCEPT ![a].last_chunk = chunk,
                                  ![a].yielded = Yielded(@, chunk)]
        /\ UNCHANGED <<obs, outcome, faults>>
     \/ /\ call' = [call EXCEPT ![a] =
                      IF Truthy(f.last_chunk)
                      THEN GoPersist(ag, f, "assistant", StreamText(f),
                                     f.last_chunk.usage)
                      ELSE [f EXCEPT !.pc = "return"]]
        /\ UNCHANGED <<obs, outcome, faults>>
     \/ Raised(a, "StreamError", obs[a])
  /\ UNCHANGED <<chat_sessions, chat_messages, personas, users, requests, now, agent, turns>>

\* reply, line 226: return response; stream_reply: the generator is exhausted
Return(a) ==
  LET f == call[a] IN
  /\ f.pc = "return"
  /\ outcome' = [outcome EXCEPT ![a] =
                   IF agent[a].stream
                   THEN [NoOutcome EXCEPT !.kind = "completed", !.chunks = f.yielded]
                   ELSE [NoOutcome EXCEPT !.kind = "response", !.response = f.response]]
  /\ call' = [call EXCEPT ![a] = IdleFrame]
  /\ UNCHANGED <<chat_sessions, chat_messages, personas, users, requests, now, agent, obs, turns, faults>>

\* wait_fixed(2) has elapsed: the retry loop starts the next attempt
RetryAfterWait(a) ==
  LET f == call[a] IN
  /\ f.pc = "wait"
  /\ call' = [call EXCEPT ![a] = AttemptFrame(f.instructions, f.attempt + 1)]

  /\ UNCHANGED <<chat_sessions, chat_messages, personas, users, requests, now, agent, outcome, obs, turns, faults>>

Next ==
  \E a \in Agents :
    \/ Construct(a)
    \/ \E instructions \in Instructions : ReplyCall(a, instructions)
    \/ EnsurePersona(a)
    \/ EnsureSession(a)
    \/ SessionCreate(a)
    \/ LoadMemory(a)
    \/ AddMessageInsert(a)
    \/ AddMessagePointer(a)
    \/ InvokeModel(a)
    \/ NextChunk(a)
    \/ Return(a)
    \/ RetryAfterWait(a)

Spec == Init /\ [][Next]_vars


\* ------------------------------------------------------------------------
\* One call of reply / stream_reply on a fresh instance
\* ------------------------------------------------------------------------
\* the first call on the instance
FirstCall(a) == turns = 0 /\ ReplyCall(a, Instruction(1))

\* the steps of the pipeline, the retry loop included
PipelineStep(a) ==
  \/ EnsurePersona(a)
  \/ EnsureSession(a)
  \/ SessionCreate(a)
  \/ LoadMemory(a)
  \/ AddMessageInsert(a)
  \/ AddMessagePointer(a)
  \/ InvokeModel(a)
  \/ NextChunk(a)
  \/ Return(a)
  \/ RetryAfterWait(a)

NextTurn == \E a \in Agents : FirstCall(a) \/ PipelineStep(a)

TurnSpec == Init /\ [][NextTurn]_vars

\* every collaborator call returns or raises, and the event loop resumes the
\* coroutine: a pipeline step that can be taken is taken
FairTurnSpec == TurnSpec /\ \A a \in Agents : WF_vars(PipelineStep(a))

\* ------------------------------------------------------------------------
\* Memory load and prompt assembly over sessions that already hold messages
\* ------------------------------------------------------------------------
\* the second in which row i of a session was inserted, the rows j in ties
\* falling into the same second as row j - 1 (CURRENT_TIMESTAMP counts
\* seconds)
Timestamp(i, ties) == i - Cardinality({j \in ties : j <= i})

\* a text of n different symbols
LongText(n) == [i \in 1..n |-> i]

\* the instance of the call, persona resolution and session resolution done
MemoryAgent(stream, persona) ==
  StoreSessionPk(
    PersonaResolved(NewAgent(AgentConfig(stream, "k1", <<NoneVal, NoneVal, persona>>)),
                    IF persona = EmptyText THEN FallbackPersona ELSE persona),
    1)

\* row i of a session written by earlier turns: user and assistant in turn
HistoryRow(i, ties, content) ==
  ChatMessageRow(i, 1, IF i % 2 = 1 THEN "user" ELSE "assistant", content, NoUsage,
                 message_meta(MemoryAgent(FALSE, EmptyText)), Timestamp(i, ties))

HistoryTable(n, ties) == [i \in 1..n |-> HistoryRow(i, ties, <<"m", i>>)]

\* short histories, and histories around the limit of 100 rows
HistorySizes == (0..MaxSmall) \cup ((history_limit - 1)..(history_limit + MaxOver))

\* the rows that may share their second with the row before them
TiePositions(n) == {j \in {2, 3, n} : j <= n}

HistoryTables ==
  UNION { {HistoryTable(n, ties) : ties \in SUBSET TiePositions(n)} : n \in HistorySizes }

\* one row whose rendering is around the cap of 10000 symbols
LongTables ==
  { <<HistoryRow(1, {}, LongText(n))>> :
      n \in (msg_words_limit - 4)..(msg_words_limit - 3 + MaxOver) }

\* persona texts around the cap, given at construction
LongPersonas == { LongText(n) : n \in (msg_words_limit - 1)..(msg_words_limit + MaxOver) }

\* the sessions and personas the memory load is run on
MemoryInputs ==
  { <<t, EmptyText>> : t \in HistoryTables \cup LongTables }
  \cup { <<t, p>> : t \in LongTables \cup {HistoryTable(0, {}), HistoryTable(MaxSmall, {})},
                   p \in LongPersonas }

\* the instruction of the call: a short one, and one longer than the cap of
\* the persona and memory blocks
MemoryInstructions == {Instruction(1), LongText(msg_words_limit + 1)}

\* a call on an existing session has resolved persona and session and is
\* about to fetch the history (_load_memory_text, line 172)
InitMemory ==
  \E input \in MemoryInputs, stream \in BOOLEAN, instructions \in MemoryInstructions :
    LET table == input[1]
        ag == MemoryAgent(stream, input[2])
    IN /\ chat_sessions =
            <<[ChatSessionRow(1, "k1", NoneVal) EXCEPT !.last_msg_id = Len(table)]>>
       /\ chat_messages = table
       /\ personas = PersonaTable
       /\ users = UserIds
       /\ requests = <<>>
       /\ now = IF table = <<>> THEN 0 ELSE table[Len(table)].created_at
       /\ agent = [a \in Agents |-> ag]
       /\ call = [a \in Agents |->
                    AfterSession(ag, AfterPersona(AttemptFrame(instructions, 1)), 1)]
       /\ outcome = [a \in Agents |-> NoOutcome]
       /\ obs = [a \in Agents |->
                   [NewObs EXCEPT !.calls = 1, !.session_queries = 1,
                                  !.start_len = Len(table),
                                  !.instructions = instructions]]
       /\ turns = 1
       /\ faults = 0

NextMemory == \E a \in Agents : LoadMemory(a)

MemorySpec == InitMemory /\ [][NextMemory]_vars

\* ------------------------------------------------------------------------
\* Session resolution by two clients at a time
\* ------------------------------------------------------------------------
\* two requests in flight, each with its own HostAgent (deps.get_agent)
Clients == {"a1", "a2"}

\* the session keys the two requests may carry
ClientKeys == {"k1", "k2"}

InitSession ==
  /\ chat_sessions = <<>>
  /\ chat_messages = <<>>
  /\ personas = PersonaTable
  /\ users = UserIds
  /\ requests = <<>>
  /\ now = 0
  /\ agent \in [Clients -> {NewAgent(AgentConfig(s, k, <<NoneVal, NoneVal, EmptyText>>)) :
                              s \in BOOLEAN, k \in ClientKeys}]
  /\ call = [a \in Clients |-> IdleFrame]
  /\ outcome = [a \in Clients |-> NoOutcome]
  /\ obs = [a \in Clients |-> NewObs]
  /\ turns = 0
  /\ faults = 0

\* the steps of a call up to the point where the user row is about to be
\* inserted; the awaits of the two calls interleave
NextSession ==
  \E a \in Clients :
    \/ \E instructions \in Instructions : ReplyCall(a, instructions)
    \/ EnsurePersona(a)
    \/ EnsureSession(a)
    \/ SessionCreate(a)
    \/ LoadMemory(a)
    \/ RetryAfterWait(a)

SessionSpec == InitSession /\ [][NextSession]_vars

\* ------------------------------------------------------------------------
\* Two instances that run one turn each on the same session key: a1 is
\* consumed through stream_reply, a2 through reply (deps.get_agent builds an
\* instance per request; nothing serialises the requests of one session)
\* ------------------------------------------------------------------------
InitPair ==
  /\ chat_sessions = <<>>
  /\ chat_messages = <<>>
  /\ personas = PersonaTable
  /\ users = UserIds
  /\ requests = <<>>
  /\ now = 0
  /\ agent = [a \in Clients |->
                NewAgent(AgentConfig(a = "a1", "k1", <<NoneVal, NoneVal, EmptyText>>))]
  /\ call = [a \in Clients |-> IdleFrame]
  /\ outcome = [a \in Clients |-> NoOutcome]
  /\ obs = [a \in Clients |-> NewObs]
  /\ turns = 0
  /\ faults = MaxFaults - 1

\* the one call of client a
PairCall(a) == obs[a].calls = 0 /\ \E instructions \in Instructions : ReplyCall(a, instructions)

\* the awaits of the two calls interleave
NextPair == \E a \in Clients : PairCall(a) \/ PipelineStep(a)

PairSpec == InitPair /\ [][NextPair]_vars

\* ------------------------------------------------------------------------
\* The persona requests of the user router (src/api/routers/user.py) over
\* the Persona Store; every await of a handler is a step of its own
\* ------------------------------------------------------------------------
PersonaNames == {"default_persona", "n1", "n2"}

\* an absent Optional field, and a field that is given
Absent == <<>>
Given(v) == <<v>>

\* models.Persona with its name: a row of table personas
PersonaRecord(id, user, name, dflt) ==
  [id |-> id, user_id |-> user, name |-> name, is_default |-> dflt]

\* gen_uuid_str: an id that no row has yet
NewPersonaId(rows) == Cardinality(rows) + 1

\* Index ix_personas_user_name (unique): the commit of rows is accepted
UniqueNames(rows) ==
  \A p, q \in rows : (p.user_id = q.user_id /\ p.name = q.name) => p = q

\* variant: the rows are left as they are
update_user_default_personas_Kept(rows, uid, dflt) == rows

\* persona_repo.update_user_default_personas, lines 115-124
update_user_default_personas(rows, uid, dflt) ==
  {IF p.user_id = uid THEN [p EXCEPT !.is_default = dflt] ELSE p : p \in rows}

\* variant: the insert also clears the default flag of the user's other rows
create_persona_Exclusive(rows, uid, name, dflt) ==
  (IF dflt THEN update_user_default_personas(rows, uid, FALSE) ELSE rows)
    \cup {PersonaRecord(NewPersonaId(rows), uid, name, dflt)}

\* persona_repo.create_persona, lines 17-28: the table after the insert
create_persona(rows, uid, name, dflt) ==
  rows \cup {PersonaRecord(NewPersonaId(rows), uid, name, dflt)}

\* persona_repo.update_persona, lines 85-105: the fields that are given
\* are written to the row with that id
update_persona(rows, pid, name, dflt) ==
  {IF p.id = pid
   THEN [p EXCEPT !.name = IF name # NoneVal THEN name ELSE @,
                  !.is_default = IF dflt # Absent THEN dflt[1] ELSE @]
   ELSE p : p \in rows}

\* the frame of a request that has been answered with an HTTP status
DoneRequest(status) ==
  [kind |-> "done", pc |-> "done", user |-> NoneVal, name |-> NoneVal, is_default |-> Absent,
   persona_id |-> NoId, persona |-> Absent, status |-> status]

\* the frame of a request that has reached its handler
NewRequest(kind, user, name, dflt, pid) ==
  [kind |-> kind, pc |-> "start", user |-> user, name |-> name, is_default |-> dflt,
   persona_id |-> pid, persona |-> Absent, status |-> 0]

\* the requests a client can send: POST /register, POST /persona (a
\* PersonaCreate body; is_default is a bool) and PUT /persona/{persona_id}
\* (a PersonaUpdate body; every field is optional) of a registered user
RequestInputs ==
  {NewRequest("register", u, "default_persona", Given(TRUE), NoId) : u \in UserIds}
  \cup {NewRequest("create", u, n, Given(d), NoId) :
          u \in users, n \in PersonaNames, d \in BOOLEAN}
  \cup {NewRequest("update", u, n, d, pid) :
          u \in users, n \in PersonaNames \cup {NoneVal},
          d \in {Absent, Given(TRUE), Given(FALSE)},
          pid \in 1..(Cardinality(personas) + 1)}

\* no request is being handled
NoneInFlight == \A r \in DOMAIN requests : requests[r].pc = "done"

\* what a step of a request leaves alone
HostUnchanged ==
  UNCHANGED <<chat_sessions, chat_messages, now, agent, call, outcome, obs, turns>>

\* the handler of request r goes on at pc
Goto(r, pc) == requests' = [requests EXCEPT ![r].pc = pc]

\* request r is answered
Answer(r, status) == requests' = [requests EXCEPT ![r] = DoneRequest(status)]

\* a call to the store raises: the request is answered with status 500
StoreFails(r) ==
  /\ faults < MaxFaults
  /\ faults' = faults + 1
  /\ Answer(r, 500)
  /\ UNCHANGED <<users, personas>>

\* a request reaches its handler
Arrive(req) ==
  /\ Len(requests) < MaxRequests
  /\ requests' = Append(requests, req)
  /\ UNCHANGED <<users, personas, faults>>
  /\ HostUnchanged

\* create_user, lines 21-25: the username is looked up
RegisterCheck(r) ==
  LET f == requests[r] IN
  /\ r \in DOMAIN requests
  /\ f.kind = "register" /\ f.pc = "start"
  /\ \/ /\ IF f.user \in users THEN Answer(r, 400) ELSE Goto(r, "user")
        /\ UNCHANGED <<users, personas, faults>>
     \/ StoreFails(r)
  /\ HostUnchanged

\* create_user, line 32: INSERT of the user (username is unique)
RegisterUser(r) ==
  LET f == requests[r] IN
  /\ r \in DOMAIN requests
  /\ f.kind = "register" /\ f.pc = "user"
  /\ \/ /\ f.user \notin users
        /\ users' = users \cup {f.user}
        /\ Goto(r, "insert")
        /\ UNCHANGED <<personas, faults>>
     \/ /\ f.user \in users
        /\ Answer(r, 500)
        /\ UNCHANGED <<users, personas, faults>>
     \/ StoreFails(r)
  /\ HostUnchanged

\* create_persona, lines 80-85, and update_persona, lines 166-172: the
\* names of the user's personas are read and compared
CheckName(r) ==
  LET f == requests[r]
      taken == \E p \in get_persona(f.user) : p.name = f.name
  IN
  /\ r \in DOMAIN requests
  /\ f.kind \in {"create", "update"} /\ f.pc = "names"
  /\ \/ /\ IF taken THEN Answer(r, 400)
           ELSE IF f.is_default = Given(TRUE)
                   /\ (f.kind = "update" => ~f.persona[1].is_default)
                THEN Goto(r, "clear")
                ELSE Goto(r, IF f.kind = "create" THEN "insert" ELSE "save")
        /\ UNCHANGED <<users, personas, faults>>
     \/ StoreFails(r)
  /\ HostUnchanged

\* create_persona, line 80: the handler starts with the name check
CreateStart(r) ==
  /\ r \in DOMAIN requests
  /\ requests[r].kind = "create" /\ requests[r].pc = "start"
  /\ Goto(r, "names")
  /\ UNCHANGED <<users, personas, faults>>
  /\ HostUnchanged

\* create_persona, lines 88-90, and update_persona, lines 175-176:
\* update_user_default_personas(current_user.id, False) and its commit
ClearDefaults(r) ==
  LET f == requests[r] IN
  /\ r \in DOMAIN requests
  /\ f.pc = "clear"
  /\ \/ /\ personas' = update_user_default_personas(personas, f.user, FALSE)
        /\ Goto(r, IF f.kind = "create" THEN "insert" ELSE "save")
        /\ UNCHANGED <<users, faults>>
     \/ StoreFails(r)
  /\ HostUnchanged

\* create_user, lines 34-38, and create_persona, lines 93-99: INSERT of
\* the persona and commit
InsertPersona(r) ==
  LET f == requests[r]
      rows == create_persona(personas, f.user, f.name, f.is_default[1])
      ok == IF f.kind = "register" THEN 201 ELSE 200
  IN
  /\ r \in DOMAIN requests
  /\ f.kind \in {"register", "create"} /\ f.pc = "insert"
  /\ \/ /\ IF UniqueNames(rows)
           THEN personas' = rows /\ Answer(r, ok)
           ELSE UNCHANGED personas /\ Answer(r, 500)
        /\ UNCHANGED <<users, faults>>
     \/ StoreFails(r)
  /\ HostUnchanged

\* update_persona, lines 149-176: the persona is fetched and checked; the
\* row that was read decides what the handler does next
UpdateFetch(r) ==
  LET f == requests[r]
      found == get_persona_pid(f.persona_id)
  IN
  /\ r \in DOMAIN requests
  /\ f.kind = "update" /\ f.pc = "start"
  /\ \/ /\ IF found = {} THEN Answer(r, 404)
           ELSE \E p \in found :
                  IF p.user_id # f.user THEN Answer(r, 403)
                  ELSE requests' =
                         [requests EXCEPT ![r].persona = Given(p),
                            ![r].pc = IF f.name # NoneVal /\ f.name # p.name THEN "names"
                                      ELSE IF f.is_default = Given(TRUE) /\ ~p.is_default
                                           THEN "clear"
                                           ELSE "save"]
        /\ UNCHANGED <<users, personas, faults>>
     \/ StoreFails(r)
  /\ HostUnchanged

\* update_persona, lines 179-187: persona_repo.update_persona and commit
UpdateSave(r) ==
  LET f == requests[r]
      rows == update_persona(personas, f.persona_id, f.name, f.is_default)
  IN
  /\ r \in DOMAIN requests
  /\ f.kind = "update" /\ f.pc = "save"
  /\ \/ /\ IF UniqueNames(rows)
           THEN personas' = rows /\ Answer(r, 200)
           ELSE UNCHANGED personas /\ Answer(r, 500)
        /\ UNCHANGED <<users, faults>>
     \/ StoreFails(r)
  /\ HostUnchanged

\* one await of the handler of request r
RequestStep(r) ==
  \/ RegisterCheck(r)
  \/ RegisterUser(r)
  \/ CreateStart(r)
  \/ CheckName(r)
  \/ ClearDefaults(r)
  \/ InsertPersona(r)
  \/ UpdateFetch(r)
  \/ UpdateSave(r)

\* no user is registered yet
InitPersona ==
  /\ chat_sessions = <<>>
  /\ chat_messages = <<>>
  /\ personas = {}
  /\ users = {}
  /\ requests = <<>>
  /\ now = 0
  /\ agent = [a \in Agents |->
                NewAgent(AgentConfig(TRUE, "k1", <<NoneVal, NoneVal, EmptyText>>))]
  /\ call = [a \in Agents |-> IdleFrame]
  /\ outcome = [a \in Agents |-> NoOutcome]
  /\ obs = [a \in Agents |-> NewObs]
  /\ turns = 0
  /\ faults = 0

\* the next request arrives when the one before it has been answered
NextPersona ==
  \/ NoneInFlight /\ \E req \in RequestInputs : Arrive(req)
  \/ \E r \in 1..MaxRequests : RequestStep(r)

PersonaSpec == InitPersona /\ [][NextPersona]_vars

\* u1 has registered and has created a second persona that is not the default
InitOverlap ==
  /\ chat_sessions = <<>>
  /\ chat_messages = <<>>
  /\ personas = {PersonaRecord(1, "u1", "default_persona", TRUE),
                 PersonaRecord(2, "u1", "n1", FALSE)}
  /\ users = {"u1"}
  /\ requests = <<>>
  /\ now = 0
  /\ agent = [a \in Agents |->
                NewAgent(AgentConfig(TRUE, "k1", <<NoneVal, NoneVal, EmptyText>>))]
  /\ call = [a \in Agents |-> IdleFrame]
  /\ outcome = [a \in Agents |-> NoOutcome]
  /\ obs = [a \in Agents |-> NewObs]
  /\ turns = 0
  /\ faults = MaxFaults - 1

\* requests arrive at any time: the awaits of their handlers interleave
NextOverlap ==
  \/ Len(requests) < MaxOverlap /\ \E req \in RequestInputs : Arrive(req)
  \/ \E r \in 1..MaxRequests : RequestStep(r)

OverlapSpec == InitOverlap /\ [][NextOverlap]_vars

\* ------------------------------------------------------------------------
\* Properties
\* ------------------------------------------------------------------------
\* rows written since the current (or last) call of a began
RowsOfTurn(a) == {m \in Range(chat_messages) : m.id > obs[a].start_len}

\* the attempt of a has built its prompt from the store's history
MemoryLoaded(a) == agent[a].session_id # NoneVal /\ call[a].messages # <<>>

\* C1: the memory text used to build the prompt of turn k consists of exactly
\* the messages persisted by the earlier turns of the session and never
\* holds a row written by turn k itself, retried attempts included.
C1_MemoryIsEarlierTurns ==
  \A a \in Agents :
    MemoryLoaded(a) =>
      /\ Range(call[a].history) =
           {m \in MessagesOf(call[a].session_pk) : m.id <= obs[a].start_len}
      /\ Range(call[a].history) \cap RowsOfTurn(a) = {}

\* C2: over all calls and retry attempts on one instance the Persona Store
\* is queried at most once, whether the first resolution succeeded, found
\* nothing or raised.
C2_PersonaQueriedOnce ==
  \A a \in Agents : obs[a].persona_queries <= 1

\* C2 witness: the second call on an instance that queried the Persona Store
\* has passed persona resolution.
C2_Witness ==
  \E a \in Agents :
    /\ obs[a].calls = 2
    /\ obs[a].persona_queries = 1
    /\ call[a].pc = "session"
    /\ call[a].stage = "memory"

\* C3: with a session key, get_or_create_session is queried only by the
\* first _ensure_session_pk call on an instance; later calls use the cache.
C3_SessionQueriedOnce ==
  \A a \in Agents : obs[a].session_queries <= 1

\* C4: an instance built without a session key never reads from or writes
\* to the Conversation Store: no session fetched or created, empty memory,
\* no message row appended.
C4_NoKeyNoStore ==
  \A a \in Agents :
    agent[a].session_id = NoneVal =>
      /\ obs[a].session_queries = 0
      /\ obs[a].history_queries = 0
      /\ obs[a].message_writes = 0
      /\ call[a].session_pk = NoId
      /\ call[a].history = <<>>
      /\ \A i \in 1..Len(call[a].messages) : call[a].messages[i].name # "memory"
      /\ call[a].pc \notin {"session_create", "history", "insert", "pointer"}

\* C4 witness: the second call on an instance without a session key has got
\* its response from the model.
C4_Witness ==
  \E a \in Agents :
    /\ agent[a].session_id = NoneVal
    /\ obs[a].calls = 2
    /\ obs[a].model_calls >= 1
    /\ call[a].pc = "return"

\* C5: one call of reply runs the pipeline at most 3 times; an attempt after
\* the first starts only after the previous one raised; after the third
\* failed attempt the call is over (no further model call or store write).
C5_AtMostThreeAttempts ==
  \A a \in Agents :
    ~agent[a].stream =>
      /\ call[a].attempt <= 3
      /\ obs[a].model_calls <= 3
      /\ obs[a].model_calls <= obs[a].raised + 1
      /\ call[a].pc \notin {"idle", "wait"} => call[a].attempt = obs[a].raised + 1
      /\ call[a].pc = "wait" => call[a].attempt = obs[a].raised
      /\ outcome[a].kind = "error" => call[a].pc = "idle" /\ obs[a].raised = 3

\* C5 witness: a reply call has ended after three failed attempts.
C5_Witness ==
  \E a \in Agents :
    /\ ~agent[a].stream
    /\ outcome[a].kind = "error"
    /\ obs[a].raised = 3

\* C6: when all 3 attempts of a reply call fail, the caller receives the
\* error raised by the last failing step, not another error value.
C6_UnderlyingErrorSurfaces ==
  \A a \in Agents :
    (~agent[a].stream /\ outcome[a].kind = "error") =>
      outcome[a].error = outcome[a].cause

\* C7: in streaming mode an exception in the stream_reply pipeline makes the
\* whole pipeline run again, up to 3 attempts, before the consumer of the
\* stream gets an error.
C7_StreamRetried ==
  \A a \in Agents :
    (agent[a].stream /\ outcome[a].kind = "error") => obs[a].raised = 3

\* C8: when the model fails on attempts 1 and 2 of a reply call and succeeds
\* on attempt 3, reply returns the third attempt's response and the store
\* holds exactly one user message and one assistant message for the turn.
C8_OneUserOneAssistant ==
  \A a \in Agents :
    ( /\ ~agent[a].stream
      /\ agent[a].session_id # NoneVal
      /\ outcome[a].kind = "response"
      /\ obs[a].raised = 2
      /\ obs[a].model_failures = 2
      /\ res_to_text(outcome[a].response) # EmptyText ) =>
      /\ outcome[a].response = obs[a].last_result
      /\ Cardinality({m \in RowsOfTurn(a) : m.role = "user"}) = 1
      /\ Cardinality({m \in RowsOfTurn(a) : m.role = "assistant"}) = 1

\* C9: with a session key, every attempt appends the user message before it
\* invokes the model, so once the model has been invoked for an instruction
\* (even if every attempt fails) the store holds a user row with it.
C9_UserRowBeforeModel ==
  \A a \in Agents :
    agent[a].session_id # NoneVal =>
      /\ call[a].pc \in {"model", "chunks"} =>
           /\ call[a].msg_id \in 1..Len(chat_messages)
           /\ chat_messages[call[a].msg_id].role = "user"
           /\ chat_messages[call[a].msg_id].content = call[a].instructions
           /\ chat_messages[call[a].msg_id].id > obs[a].start_len
      /\ obs[a].model_calls >= 1 =>
           \E m \in RowsOfTurn(a) :
             m.role = "user" /\ m.content = obs[a].instructions

\* C9 witness: a reply call on a session has failed at the model in all of
\* its three attempts.
C9_Witness ==
  \E a \in Agents :
    /\ agent[a].session_id # NoneVal
    /\ outcome[a].kind = "error"
    /\ obs[a].model_failures = 3

\* the model call of the running attempt has delivered non-empty text: the
\* response of reply, or the last chunk of a finished stream
ModelGaveText(a) ==
  IF agent[a].stream
  THEN /\ Truthy(call[a].last_chunk)
       /\ call[a].yielded # <<>>
       /\ call[a].last_chunk = call[a].yielded[Len(call[a].yielded)]
       /\ res_to_text(call[a].last_chunk) # EmptyText
       /\ call[a].content = res_to_text(call[a].last_chunk)
  ELSE /\ Truthy(call[a].response)
       /\ call[a].response = obs[a].last_result
       /\ res_to_text(call[a].response) # EmptyText
       /\ call[a].content = res_to_text(call[a].response)

\* C10: an assistant row is appended only after the model call of that
\* attempt returned non-empty text (reply) or the stream ended with a last
\* chunk of non-empty text (stream_reply); never before the model returned,
\* after a model failure or while chunks are being yielded.
C10_AssistantRowAfterText ==
  [][ ( /\ Len(chat_messages') > Len(chat_messages)
        /\ chat_messages'[Len(chat_messages')].role = "assistant" ) =>
      \E a \in Agents :
        /\ call[a].pc = "insert"
        /\ call[a].stage = "assistant"
        /\ ModelGaveText(a)
        /\ chat_messages'[Len(chat_messages')].content = call[a].content ]_vars

\* C10 witness: stream_reply has just appended its assistant row.
C10_Witness ==
  \E a \in Agents :
    /\ agent[a].stream
    /\ call[a].pc = "pointer"
    /\ call[a].stage = "assistant"

\* the usage fields a message row holds
UsageFields(m) == <<m.has_usage, m.input_tokens, m.output_tokens, m.response_time>>

\* the same fields as a usage value gives them
UsageOf(usage) ==
  IF usage.present THEN <<TRUE, usage.input_tokens, usage.output_tokens, usage.time>>
  ELSE <<FALSE, 0, 0, 0>>

\* C11: an assistant row written by stream_reply carries the input-token,
\* output-token and response-time values of the final chunk's usage; an
\* assistant row written by reply and every user row has the three fields
\* empty.
C11_UsageOnlyFromStream ==
  [][ Len(chat_messages') > Len(chat_messages) =>
      \E a \in Agents :
        /\ call[a].pc = "insert"
        /\ chat_messages'[Len(chat_messages')].role = call[a].stage
        /\ UsageFields(chat_messages'[Len(chat_messages')]) =
             IF agent[a].stream /\ call[a].stage = "assistant"
             THEN UsageOf(call[a].yielded[Len(call[a].yielded)].usage)
             ELSE UsageOf(NoUsage) ]_vars

\* C11 witness: stream_reply has appended an assistant row whose final chunk
\* carried usage values.
C11_Witness ==
  \E a \in Agents :
    /\ agent[a].stream
    /\ call[a].pc = "pointer"
    /\ call[a].stage = "assistant"
    /\ call[a].last_chunk.usage = SomeUsage
    /\ UsageFields(chat_messages[call[a].msg_id]) = <<TRUE, 7, 5, 1>>

\* _persist_message is running in the call of a
InPersist(a) == call[a].stage \in {"user", "assistant"}

\* the model of the running attempt of a gave a response without text
ModelGaveNoText(a) ==
  /\ call[a].pc = "return"
  /\ IF agent[a].stream
     THEN Truthy(call[a].last_chunk) /\ res_to_text(call[a].last_chunk) = EmptyText
     ELSE Truthy(call[a].response) /\ res_to_text(call[a].response) = EmptyText

\* C12: _persist_message leaves the store unchanged (no message row, no
\* session created, no pointer update) whenever the instance has no session
\* key or the content to persist is empty.
C12_PersistSkipLeavesStore ==
  /\ [][ \A a \in Agents :
           ( /\ call[a].pc # "idle"
             /\ \/ chat_messages' # chat_messages
                \/ chat_sessions' # chat_sessions /\ InPersist(a) ) =>
             (agent[a].session_id # NoneVal /\ call[a].content # EmptyText) ]_vars
  /\ [](\A a \in Agents :
          (ModelGaveNoText(a) /\ agent[a].session_id # NoneVal) =>
            /\ call[a].msg_id = Len(chat_messages)
            /\ chat_messages[call[a].msg_id].role = "user"
            /\ chat_sessions[call[a].session_pk].last_msg_id = call[a].msg_id)

\* C12 witness: on a session, reply got a response without text and has
\* passed the assistant write.
C12_Witness ==
  \E a \in Agents :
    /\ agent[a].session_id # NoneVal
    /\ ~agent[a].stream
    /\ ModelGaveNoText(a)
    /\ call[a].msg_id = Len(chat_messages)

\* C13: add_message inserts and updates the pointer as two committed steps:
\* after a successful add_message (no concurrent writer) the session's
\* last_msg_id is the id of the row just inserted; if a failure occurs
\* between the two steps the inserted row stays in the store and last_msg_id
\* keeps its previous value.
C13_InsertThenPointer ==
  /\ [][ \A a \in Agents :
           (call[a].pc = "pointer" /\ call'[a] # call[a]) =>
             LET pk == call[a].session_pk
                 id == call[a].msg_id
             IN IF call'[a].pc \in {"idle", "wait"}
                THEN /\ chat_messages' = chat_messages
                     /\ chat_messages[id].id = id
                     /\ chat_sessions'[pk].last_msg_id = chat_sessions[pk].last_msg_id
                     /\ chat_sessions'[pk].last_msg_id # id
                ELSE /\ chat_messages' = chat_messages
                     /\ id = Len(chat_messages)
                     /\ chat_sessions'[pk].last_msg_id = id ]_vars
  /\ [][ \A a \in Agents :
           (call[a].pc = "insert" /\ call'[a].pc = "pointer") =>
             /\ chat_sessions' = chat_sessions
             /\ call'[a].msg_id = Len(chat_messages')
             /\ Len(chat_messages') = Len(chat_messages) + 1 ]_vars

\* C13 witness: a failure between the two steps has left the last row of
\* the store in place with the session's pointer on an earlier row.
C13_Witness ==
  \E a \in Agents :
    /\ call[a].pc \in {"idle", "wait"}
    /\ outcome[a].kind \in {"none", "error"}
    /\ obs[a].raised >= 1
    /\ Len(chat_messages) >= 2
    /\ LET m == chat_messages[Len(chat_messages)]
       IN /\ chat_sessions[m.session_id].last_msg_id # m.id
          /\ chat_sessions[m.session_id].last_msg_id # NoId

\* the step in which _ensure_persona_text resolves the persona of a
PersonaStep(a) == ~agent[a].persona_loaded /\ agent'[a].persona_loaded

\* C14: the persona text after _ensure_persona_text follows the priority
\* order: (a) a text supplied at construction is kept and no lookup is made;
\* (b) else, with a user id and no persona id, the compiled profile of the
\* user's default persona; (c) else, with a persona id, the compiled profile
\* of that persona; (d) the fixed fallback text when none of these gives text.
C14_PersonaPriority ==
  [][ \A a \in Agents :
        (PersonaStep(a) /\ faults' = faults) =>
          LET ag == agent[a]
              dflt == {p \in personas : p.user_id = ag.user_id /\ p.is_default}
              byid == {p \in personas : p.id = ag.persona_id}
          IN /\ ag.persona # EmptyText =>
                  /\ agent'[a].persona = ag.persona
                  /\ obs'[a].persona_queries = obs[a].persona_queries
             /\ (ag.persona = EmptyText /\ ag.user_id # NoneVal /\ ag.persona_id = NoneVal
                   /\ dflt # {}) =>
                  \E p \in dflt : agent'[a].persona = <<"profile-of", p.id>>
             /\ (ag.persona = EmptyText /\ ag.persona_id # NoneVal /\ byid # {}) =>
                  \E p \in byid : agent'[a].persona = <<"profile-of", p.id>>
             /\ ( /\ ag.persona = EmptyText
                  /\ ~(ag.user_id # NoneVal /\ ag.persona_id = NoneVal /\ dflt # {})
                  /\ ~(ag.persona_id # NoneVal /\ byid # {}) ) =>
                  agent'[a].persona = FallbackPersona
             /\ (ag.user_id = NoneVal /\ ag.persona_id = NoneVal) =>
                  obs'[a].persona_queries = obs[a].persona_queries ]_vars

\* C14 witness: an instance built with a user id (whose default persona is
\* p1) and the persona id p2 has resolved its text to the profile of p2.
C14_Witness ==
  \E a \in Agents :
    /\ agent[a].user_id = "u1"
    /\ agent[a].persona_id = "p2"
    /\ agent[a].persona_loaded
    /\ agent[a].persona = <<"profile-of", "p2">>
    /\ call[a].pc = "model"

\* C15: an exception of the Persona Store or of profile compilation during
\* persona resolution never leaves reply/stream_reply and never starts a
\* retry: the persona text becomes the fallback text and the same attempt
\* goes on to session resolution and the model call.
C15_PersonaFailureHidden ==
  [][ \A a \in Agents :
        (PersonaStep(a) /\ faults' = faults + 1) =>
          /\ agent'[a].persona = FallbackPersona
          /\ call'[a].pc = "session"
          /\ call'[a].stage = "memory"
          /\ call'[a].attempt = call[a].attempt
          /\ obs'[a].raised = obs[a].raised
          /\ outcome'[a] = outcome[a] ]_vars

\* C15 witness: a call of the user whose default persona is p1 has reached
\* the model in its first attempt, without an error raised, with the
\* fallback text as persona (so the lookup failed).
C15_Witness ==
  \E a \in Agents :
    /\ agent[a].user_id = "u1"
    /\ agent[a].persona_id = NoneVal
    /\ agent[a].persona = FallbackPersona
    /\ call[a].pc = "model"
    /\ call[a].attempt = 1
    /\ obs[a].raised = 0

\* reply runs its first call on a new session key for an instance without
\* persona text, user id or persona id, and has built the prompt from an
\* empty history
NewSessionNoPersona(a) ==
  /\ ~agent[a].stream
  /\ agent[a].session_id # NoneVal
  /\ agent[a].user_id = NoneVal
  /\ agent[a].persona_id = NoneVal
  /\ agent[a].persona # GivenPersona
  /\ turns = 1
  /\ obs[a].start_len = 0
  /\ call[a].messages # <<>>
  /\ call[a].history = <<>>

\* C16: for a reply on a new session key with no persona supplied or found
\* and an empty history, the prompt sent to the model is exactly two
\* messages: the system block, then the user block (no persona block, no
\* memory block).
C16_TwoMessagePrompt ==
  \A a \in Agents :
    NewSessionNoPersona(a) =>
      /\ Len(call[a].messages) = 2
      /\ call[a].messages[1].role = "system"
      /\ call[a].messages[2].role = "user"

\* C16 as amended: in that case the prompt is exactly three messages: the
\* system block, a persona block holding the fallback text, and the user
\* block with the instruction; there is no memory block.
C16_ThreeMessagePrompt ==
  \A a \in Agents :
    NewSessionNoPersona(a) =>
      /\ Len(call[a].messages) = 3
      /\ call[a].messages[1] = PromptMessage("system", NoneVal, system_prompt(agent[a]))
      /\ call[a].messages[2] =
           PromptMessage("assistant", "persona", <<"persona-header">> \o FallbackPersona)
      /\ call[a].messages[3] = PromptMessage("user", NoneVal, call[a].instructions)

\* C16 witness: such a reply has sent its prompt to the model.
C16_Witness ==
  \E a \in Agents :
    /\ NewSessionNoPersona(a)
    /\ call[a].pc = "return"
    /\ call[a].attempt = 1
    /\ Truthy(call[a].response)

\* the entry of one message in the memory text
EntryText(m) == <<"[", m.role, "] ">> \o m.content

\* the entries of rows i..j of h, one per line
RECURSIVE LinesOf(_, _, _)
LinesOf(h, i, j) ==
  IF i > j THEN EmptyText
  ELSE IF i = j THEN EntryText(h[i])
  ELSE LinesOf(h, i, (i + j) \div 2) \o <<"\n">> \o LinesOf(h, (i + j) \div 2 + 1, j)

Lines(h, k) == LinesOf(h, 1, k)

\* the contents of the prompt blocks with the given name
BlocksNamed(a, name) ==
  {call[a].messages[i].content :
     i \in {j \in 1..Len(call[a].messages) : call[a].messages[j].name = name}}

\* C17: for a session holding n messages the memory text renders exactly
\* min(n, 100) entries '[role] content', one per message, for the min(n, 100)
\* most recently created messages, listed oldest first (creation time being
\* the created_at of the row).
C17_MemoryIsLastHundred ==
  \A a \in Agents :
    MemoryLoaded(a) =>
      LET h == call[a].history
          all == MessagesOf(call[a].session_pk)
          n == Cardinality(all)
          k == IF n < 100 THEN n ELSE 100
      IN /\ Len(h) = k
         /\ \A i \in 1..k : h[i] \in all
         /\ \A i, j \in 1..k : i < j => (h[i] # h[j] /\ h[i].created_at <= h[j].created_at)
         /\ \A m \in all \ Range(h) : \A i \in 1..k : m.created_at <= h[i].created_at
         /\ k = 0 => BlocksNamed(a, "memory") = {}
         /\ (k > 0 /\ Len(Lines(h, k)) <= 10000) =>
              BlocksNamed(a, "memory") = { <<"memory-header">> \o Lines(h, k) }

\* C17 witness: the memory of a session holding more than 100 messages has
\* been loaded and rendered.
C17_Witness ==
  \E a \in Agents :
    /\ MemoryLoaded(a)
    /\ Cardinality(MessagesOf(call[a].session_pk)) > 100
    /\ Len(call[a].history) = 100
    /\ BlocksNamed(a, "memory") # {}

\* C18: after turn k has persisted its assistant message, the memory loaded
\* for turn k+1 on the same session (by the same or another instance) has
\* that assistant message as its last entry. Stated for the first attempt
\* of the second call on the session, whose memory is the rows of turn 1.
C18_AssistantEndsNextMemory ==
  \A a \in Agents :
    ( /\ MemoryLoaded(a)
      /\ turns = 2
      /\ call[a].attempt = 1
      /\ \E m \in MessagesOf(call[a].session_pk) :
           m.id <= obs[a].start_len /\ m.role = "assistant" ) =>
      /\ call[a].history # <<>>
      /\ call[a].history[Len(call[a].history)].role = "assistant"

\* a prompt block: its header, then the text, or the last 10000 symbols of a
\* longer text
TailBlock(header, text) ==
  IF Len(text) > 10000
  THEN <<header>> \o [i \in 1..10000 |-> text[Len(text) - 10000 + i]]
  ELSE <<header>> \o text

\* C19: truncation in _build_messages keeps the tail: when the persona text
\* or the memory text is longer than the cap of 10000, its prompt block holds
\* exactly the last 10000 characters of the text after the fixed header; a
\* text that is not longer is kept whole.
C19_TailPreserved ==
  \A a \in Agents :
    MemoryLoaded(a) =>
      LET memory == Lines(call[a].history, Len(call[a].history))
      IN /\ BlocksNamed(a, "persona") = {TailBlock("persona-header", agent[a].persona)}
         /\ BlocksNamed(a, "memory") =
              IF memory = EmptyText THEN {} ELSE {TailBlock("memory-header", memory)}

\* C19 witness: a prompt has been built from a persona text and a memory
\* text that are both longer than the cap.
C19_Witness ==
  \E a \in Agents :
    /\ MemoryLoaded(a)
    /\ Len(agent[a].persona) > 10000
    /\ Len(Lines(call[a].history, Len(call[a].history))) > 10000
    /\ \A c \in BlocksNamed(a, "persona") \cup BlocksNamed(a, "memory") : Len(c) = 10001

\* C20: get_or_create_session is idempotent per key: any two calls with the
\* same session key that return give the same session id, and in every
\* reachable state of the store at most one ChatSession row exists per key.
C20_OneSessionPerKey ==
  /\ [](\A i, j \in 1..Len(chat_sessions) :
          chat_sessions[i].session_key = chat_sessions[j].session_key => i = j)
  /\ [](\A a, b \in DOMAIN agent :
          ( /\ agent[a].session_id = agent[b].session_id
            /\ agent[a].db_session_pk # NoId
            /\ agent[b].db_session_pk # NoId ) =>
            /\ agent[a].db_session_pk = agent[b].db_session_pk
            /\ chat_sessions[agent[a].db_session_pk].session_key = agent[a].session_id)
  /\ [][ \A a \in DOMAIN agent :
           agent[a].db_session_pk # NoId =>
             agent'[a].db_session_pk = agent[a].db_session_pk ]_vars

\* C20 witness: two instances with the same key have both got a session id
\* from get_or_create_session, one of them for the second time.
C20_Witness ==
  \E a, b \in DOMAIN agent :
    /\ a # b
    /\ agent[a].session_id = agent[b].session_id
    /\ agent[a].db_session_pk # NoId
    /\ agent[b].db_session_pk # NoId
    /\ call[a].pc = "insert"
    /\ obs[a].session_queries = 2

\* the assistant write of the running attempt of a has inserted its row
AssistantRowWritten(a) == call[a].pc = "pointer" /\ call[a].stage = "assistant"

\* C21: the assistant text persisted by stream_reply is the concatenation
\* of all chunks it yielded (which is the text reply would persist for the
\* complete response made of them).
C21_StreamTextIsConcatenation ==
  \A a \in Agents :
    (agent[a].stream /\ AssistantRowWritten(a)) =>
      chat_messages[call[a].msg_id].content = ConcatTexts(call[a].yielded)

\* C21 as amended: the assistant text persisted by stream_reply is the text
\* of the last chunk it yielded, and reply persists the text of its response
\* in the same way: for a complete response equal to that last chunk both
\* persist the same text.
C21_StreamTextIsLastChunk ==
  \A a \in Agents :
    AssistantRowWritten(a) =>
      LET final == IF agent[a].stream THEN call[a].yielded[Len(call[a].yielded)]
                   ELSE call[a].response
          block == final.content.blocks[1]
      IN chat_messages[call[a].msg_id].content =
           IF final.content.kind = "str" THEN final.content.str
           ELSE IF block.type = "text" THEN block.text ELSE EmptyText

\* C21 witness: stream_reply has persisted its text after yielding two
\* chunks that both carry text.
C21_Witness ==
  \E a \in Agents :
    /\ agent[a].stream
    /\ AssistantRowWritten(a)
    /\ Len(call[a].yielded) = 2
    /\ \A i \in 1..2 : res_to_text(call[a].yielded[i]) # EmptyText

\* C22: stream_reply forwards the chunks one at a time: each chunk received
\* from the model is yielded unchanged and in the order received before the
\* next one is requested, and the assistant message is persisted only after
\* the last chunk has been yielded.
C22_ChunksForwardedInOrder ==
  [][ \A a \in Agents :
        LET f == call[a]
            g == call'[a]
            n == Len(f.yielded)
        IN /\ (f.pc = "chunks" /\ g.pc = "chunks" /\ g # f) =>
                /\ Len(g.yielded) = n + 1
                /\ SubSeq(g.yielded, 1, n) = f.yielded
                /\ g.yielded[n + 1] = g.last_chunk
                /\ g.last_chunk \in StreamChunks
                /\ chat_messages' = chat_messages
           /\ (f.pc \notin {"chunks", "idle"} /\ g.pc # "idle" /\ f.yielded # <<>>) =>
                g.yielded = f.yielded
           /\ ( /\ agent[a].stream
                /\ Len(chat_messages') > Len(chat_messages)
                /\ chat_messages'[Len(chat_messages')].role = "assistant" ) =>
                /\ f.pc = "insert"
                /\ f.yielded # <<>>
                /\ f.last_chunk = f.yielded[n]
                /\ g.yielded = f.yielded ]_vars

\* C22 witness: stream_reply has yielded two chunks and then inserted the
\* assistant row.
C22_Witness ==
  \E a \in Agents :
    /\ agent[a].stream
    /\ AssistantRowWritten(a)
    /\ Len(call[a].yielded) = 2
    /\ call[a].yielded[1] # call[a].yielded[2]

\* C23: a failure of the Conversation Store while the session is fetched or
\* created aborts the attempt with an error, and in that attempt there is no
\* model invocation and no message write.
C23_SessionFailureBeforeEffects ==
  [][ \A a \in Agents :
        ( /\ call[a].pc \in {"session", "session_create"}
          /\ obs'[a].raised = obs[a].raised + 1 ) =>
          /\ call'[a].pc \in {"wait", "idle"}
          /\ call[a].msg_id = NoId
          /\ call[a].stage # "assistant" ]_vars

\* C24: a failure while a message is written to the store is only logged
\* and does not interrupt the main flow: no step of the user-message or
\* assistant-message write raises out of the attempt, so a reply whose model
\* call succeeded still returns that response.
C24_WriteFailureOnlyLogged ==
  [][ \A a \in Agents :
        call[a].pc \in {"insert", "pointer"} => obs'[a].raised = obs[a].raised ]_vars

\* the step of the pipeline a frame is in, in the order of the claim
Phase(f) ==
  CASE f.pc = "persona" -> 1
    [] f.pc \in {"session", "session_create"} /\ f.stage = "memory" -> 2
    [] f.pc = "history" -> 3
    [] f.pc \in {"session", "session_create", "insert", "pointer"} /\ f.stage = "user" -> 5
    [] f.pc = "model" -> 6
    [] f.pc = "chunks" -> 7
    [] f.pc \in {"session", "session_create", "insert", "pointer"} /\ f.stage = "assistant" -> 8
    [] f.pc = "return" -> 9
    [] OTHER -> 0

\* C26: within an attempt the steps occur in the order persona resolution,
\* session resolution, memory load, prompt assembly, user-message
\* persistence, model invocation, chunk yielding, assistant-message
\* persistence: the attempt never goes back to an earlier step, the prompt
\* exists from the user-message persistence on and not before the memory
\* load is over, the model is invoked only once the user message is stored,
\* and the assistant message is persisted only after the model was invoked
\* (and, when streaming, after chunks were yielded).
C26_StepsInFixedOrder ==
  [][ \A a \in Agents :
        LET f == call[a]
            g == call'[a]
            n == Len(chat_messages')
        IN (g.pc \notin {"idle", "wait"}) =>
             /\ (f.pc \notin {"idle", "wait"}) =>
                   (g.attempt = f.attempt /\ Phase(g) >= Phase(f))
             /\ Phase(g) <= 3 => g.messages = <<>>
             /\ Phase(g) >= 5 =>
                   /\ g.messages # <<>>
                   /\ g.messages[Len(g.messages)] = PromptMessage("user", NoneVal, g.instructions)
             /\ (Phase(g) = 6 /\ persist_guard(agent[a], g.instructions)) =>
                   /\ n > obs'[a].start_len
                   /\ chat_messages'[n].role = "user"
                   /\ chat_messages'[n].content = g.instructions
             /\ Phase(g) = 7 => obs'[a].model_calls > obs'[a].model_failures
             /\ Phase(g) = 8 =>
                   /\ obs'[a].model_calls > obs'[a].model_failures
                   /\ agent[a].stream => g.yielded # <<>> ]_vars

\* C26 witness: a streaming attempt on a session has gone through every
\* step and has stored its assistant message.
C26_Witness ==
  \E a \in Agents :
    /\ agent[a].stream
    /\ call[a].pc = "return"
    /\ call[a].history = <<>>
    /\ Len(call[a].messages) = 3
    /\ Len(call[a].yielded) = 2
    /\ Len(chat_messages) = 2
    /\ chat_messages[2].role = "assistant"

\* the rows written since the running call of a began
RowsOfCall(a) == SubSeq(chat_messages, obs[a].start_len + 1, Len(chat_messages))

\* the second attempt of reply, after a first attempt that failed at the
\* assistant-message persistence, has come to its end
SecondAttemptDone(a) ==
  /\ ~agent[a].stream
  /\ call[a].pc = "return"
  /\ call[a].attempt = 2
  /\ obs[a].model_calls - obs[a].model_failures = 2

C28_ReplyTerminates ==
  /\ \A a \in Agents : (call[a].pc # "idle") ~> (call[a].pc = "idle")
  /\ [](\A a \in Agents :
          (~agent[a].stream /\ obs[a].calls > 0 /\ call[a].pc = "idle") =>
            /\ outcome[a].kind \in {"response", "error"}
            /\ obs[a].raised <= 2 =>
                  /\ outcome[a].kind = "response"
                  /\ outcome[a].response = obs[a].last_result
            /\ outcome[a].kind = "error" => obs[a].raised = MaxAttempts)

\* C28 witness: reply has returned a response after two failed attempts.
C28_Witness ==
  \E a \in Agents :
    /\ ~agent[a].stream
    /\ call[a].pc = "idle"
    /\ outcome[a].kind = "response"
    /\ Truthy(outcome[a].response)
    /\ obs[a].raised = 2

\* C29: two instances that run turns concurrently on the same session key
\* are not kept apart (the store order user1, user2, assistant1, assistant2
\* is reachable), while each instance stores its own user message before
\* its own assistant message.
C29_OwnUserBeforeOwnAssistant ==
  \A a \in Clients :
    AssistantRowWritten(a) =>
      \E j \in 1..(call[a].msg_id - 1) :
        /\ chat_messages[j].role = "user"
        /\ chat_messages[j].content = call[a].instructions
        /\ chat_messages[j].session_id = chat_messages[call[a].msg_id].session_id

\* C29 witness: the store holds user1, user2, assistant1, assistant2: the
\* first instance has finished after storing row 3 and the second instance
\* has just inserted row 4.
C29_Witness ==
  \E a, b \in Clients :
    /\ a # b
    /\ Len(chat_messages) = 4
    /\ [i \in 1..4 |-> chat_messages[i].role] = <<"user", "user", "assistant", "assistant">>
    /\ chat_messages[1].content = obs[a].instructions
    /\ chat_messages[2].content = obs[b].instructions
    /\ obs[a].instructions # obs[b].instructions
    /\ call[a].pc = "idle" /\ outcome[a].kind \in {"response", "completed"}
    /\ obs[a].raised = 0 /\ obs[b].raised = 0
    /\ AssistantRowWritten(b) /\ call[b].msg_id = 4

\* the default personas of user u
DefaultsOf(u) == {p \in personas : p.user_id = u /\ p.is_default}

\* C25: after any sequence of register, create-persona and update-persona
\* requests that do not overlap, every user has at most one persona with
\* is_default set.
C25_AtMostOneDefault ==
  \A u \in UserIds : Cardinality(DefaultsOf(u)) <= 1

\* C25 witness: a user who registered (and so had the default persona
\* 'default_persona') has created a second persona as the default and then
\* made the first one the default again by an update.
C25_Witness ==
  /\ Len(requests) = 3
  /\ \A r \in 1..3 : requests[r] \in {DoneRequest(200), DoneRequest(201)}
  /\ \E u \in users :
       /\ Cardinality(get_persona(u)) = 2
       /\ \E p \in DefaultsOf(u) : p.name = "default_persona"

\* C30: clearing the other defaults and setting the new default are two
\* separate commits of a request (no step of the store turns the default
\* flag of one persona off and that of another persona on), so when two
\* requests that make different personas of one user the default overlap,
\* both can clear before either sets and the user ends with two defaults.
C30_ClearThenSetNotAtomic ==
  [][ LET off == {p.id : p \in {q \in personas : q.is_default}}
                   \ {p.id : p \in {q \in personas' : q.is_default}}
          on == {p.id : p \in {q \in personas' : q.is_default}}
                  \ {p.id : p \in {q \in personas : q.is_default}}
      IN off = {} \/ on = {} ]_vars

\* C30 witness: two overlapping requests of one user have both been
\* answered with success, and the user has two default personas neither of
\* which is the persona that was the default before: each request cleared
\* the defaults before the other one set its persona.
C30_Witness ==
  /\ Len(requests) = 2
  /\ \A r \in 1..2 : requests[r] = DoneRequest(200)
  /\ \E u \in users :
       /\ Cardinality(DefaultsOf(u)) = 2
       /\ \A p \in DefaultsOf(u) : p.name # "default_persona"

\* C31: the rows get_last_messages returns are in their insertion order,
\* rows that share a creation timestamp included, so the memory lists the
\* messages an instance wrote one after the other in their write order.
C31_TiesInInsertionOrder ==
  \A a \in Agents :
    MemoryLoaded(a) =>
      LET h == call[a].history
      IN \A i, j \in 1..Len(h) : i < j => h[i].id < h[j].id

\* C32: _load_memory_text gives the empty text without raising when the
\* instance has no session key (the prompt then has no memory block), and
\* also when the query for the history fails: the step that fetches the
\* history never ends the attempt with an error.
C32_MemoryLoadNeverRaises ==
  [][ \A a \in Agents :
        LET f == call[a]
            g == call'[a]
        IN /\ (f.pc = "session" /\ f.stage = "memory" /\ agent[a].session_id = NoneVal) =>
                /\ obs'[a].raised = obs[a].raised
                /\ g.messages # <<>>
                /\ \A i \in 1..Len(g.messages) : g.messages[i].name # "memory"
           /\ f.pc = "history" =>
                /\ obs'[a].raised = obs[a].raised
                /\ g.messages # <<>> ]_vars

\* C33: the prompt built by _build_messages starts with the system message
\* and ends with a user message whose content is the instruction exactly as
\* given; between them there are only a persona block, which comes directly
\* after the system message, and a memory block, which comes directly before
\* the user message.
C33_PromptShape ==
  \A a \in Agents :
    call[a].messages # <<>> =>
      LET m == call[a].messages
          n == Len(m)
      IN /\ n \in 2..4
         /\ m[1] = PromptMessage("system", NoneVal, system_prompt(agent[a]))
         /\ m[n] = PromptMessage("user", NoneVal, call[a].instructions)
         /\ \A i \in 2..(n - 1) :
              /\ m[i].role = "assistant"
              /\ m[i].name \in {"persona", "memory"}
              /\ m[i].name = "persona" => i = 2
              /\ m[i].name = "memory" => i = n - 1

\* C33 witness: a prompt of four messages has been built for an instruction
\* that is longer than the cap of the persona and memory blocks.
C33_Witness ==
  \E a \in Agents :
    /\ Len(call[a].messages) = 4
    /\ call[a].messages[2].name = "persona"
    /\ call[a].messages[3].name = "memory"
    /\ Len(call[a].instructions) > msg_words_limit
    /\ Len(call[a].messages[4].content) = Len(call[a].instructions)

\* C34: the orchestrator only appends to the Conversation Store: no step
\* of any call or retry changes or removes a message row or removes a
\* session row (of a session row only the last_msg_id pointer changes), so
\* the messages of a session only grow, and every message row written is
\* filed under the session that carries the session key of the instance
\* that wrote it.
C34_StoreAppendOnly ==
  [][ LET n == Len(chat_messages)
          k == Len(chat_sessions)
      IN /\ Len(chat_messages') >= n
         /\ SubSeq(chat_messages', 1, n) = chat_messages
         /\ Len(chat_sessions') >= k
         /\ \A i \in 1..k :
              chat_sessions'[i] = [chat_sessions[i] EXCEPT
                                     !.last_msg_id = chat_sessions'[i].last_msg_id]
         /\ \A i \in (n + 1)..Len(chat_messages') :
              \E a \in Agents, j \in 1..k :
                /\ call[a].pc = "insert"
                /\ chat_sessions[j].id = chat_messages'[i].session_id
                /\ chat_sessions[j].session_key = agent[a].session_id ]_vars

\* C34 witness: the second turn on a session has written its assistant
\* message after a retried attempt, the rows of the first turn being in place.
C34_Witness ==
  \E a \in Agents :
    /\ turns = 2
    /\ obs[a].raised > 0
    /\ AssistantRowWritten(a)
    /\ obs[a].start_len >= 2
    /\ Len(chat_messages) >= obs[a].start_len + 3
    /\ Len(chat_sessions) = 1

\* C35: once _ensure_persona_text has run on an instance its persona text
\* is never empty and never changes again (a supplied text, a compiled
\* profile or the fallback text), and every prompt the instance builds has
\* the persona block with that text as its second message; a failure of the
\* persona store in the first call so pins the fallback text for the later
\* turns and retries of the instance.
C35_PersonaTextPinned ==
  /\ [](\A a \in Agents :
          /\ agent[a].persona_loaded => agent[a].persona # EmptyText
          /\ call[a].messages # <<>> =>
               /\ agent[a].persona_loaded
               /\ call[a].messages[2] =
                    PromptMessage("assistant", "persona",
                                  <<"persona-header">> \o agent[a].persona))
  /\ [][ \A a \in Agents :
           (agent[a].persona_loaded /\ agent'[a].persona_loaded) =>
             agent'[a].persona = agent[a].persona ]_vars

\* C35 witness: the second turn on an instance of user u1, who has a default
\* persona, builds its prompt with the fallback text (the lookup of the first
\* call failed), in a retried attempt.
C35_Witness ==
  \E a \in Agents :
    /\ obs[a].calls = 2
    /\ obs[a].raised > 0
    /\ agent[a].user_id = "u1"
    /\ agent[a].persona_id = NoneVal
    /\ agent[a].persona = FallbackPersona
    /\ call[a].messages # <<>>

\* a observed a miss for its key and is about to commit its new row, but a
\* row with the key has been committed in the meantime
LostCreateRace(a) ==
  call[a].pc = "session_create" /\ SessionsWithKey(agent[a].session_id) # {}

\* C36: when two get_or_create_session calls for the same new key both
\* observe a miss, only one row is created: the commit of the other call
\* fails, the call does not return the existing session but raises, and the
\* error leaves the attempt to the retry loop of its caller.
C36_LostRaceRaises ==
  [][ \A a \in DOMAIN agent :
        LostCreateRace(a) =>
          /\ chat_sessions' = chat_sessions
          /\ Cardinality(SessionsWithKey(agent[a].session_id)) = 1
          /\ call'[a] # call[a] =>
               /\ obs'[a].raised = obs[a].raised + 1
               /\ call'[a].session_pk = NoId
               /\ agent'[a] = agent[a]
               /\ (RetryCovers(agent[a]) /\ ~StopAfterAttempt(call[a].attempt)) =>
                    /\ call'[a].pc = "wait"
                    /\ call'[a].attempt = call[a].attempt
               /\ ~RetryCovers(agent[a]) =>
                    /\ call'[a].pc = "idle"
                    /\ outcome'[a].kind = "error"
                    /\ outcome'[a].cause \in {"IntegrityError", "SessionError"} ]_vars

\* C36 witness: two reply calls on the same new key both missed; one
\* created the session, the other raised on its commit and, in its second
\* attempt, has found the session of the first.
C36_Witness ==
  \E a, b \in DOMAIN agent :
    /\ a # b
    /\ agent[a].session_id = agent[b].session_id
    /\ Len(chat_sessions) = 1
    /\ call[a].attempt = 1 /\ call[a].session_pk = 1
    /\ call[b].attempt = 2 /\ call[b].session_pk = 1
    /\ obs[b].raised = 1
    /\ faults = 1

\* the number of rows with the role among the rows of the call of a
RoleCount(a, role) ==
  Cardinality({i \in 1..Len(RowsOfCall(a)) : RowsOfCall(a)[i].role = role})

\* a reply call on a session has returned after attempts that all reached
\* the model, that is, that all got past the user-message persistence
ReturnedAfterLateFailures(a) ==
  /\ ~agent[a].stream
  /\ agent[a].session_id # NoneVal
  /\ call[a].pc = "idle"
  /\ outcome[a].kind = "response"
  /\ obs[a].model_calls = obs[a].raised + 1

\* all three attempts of a reply call on a session failed at the model
FailedThriceAtModel(a) ==
  /\ ~agent[a].stream
  /\ agent[a].session_id # NoneVal
  /\ call[a].pc = "idle"
  /\ outcome[a].kind = "error"
  /\ obs[a].model_failures = MaxAttempts

C38_StreamErrorAfterChunks ==
  [][ \A a \in Agents :
        LET f == call[a] IN
        ( /\ agent[a].stream
          /\ f.pc = "chunks"
          /\ f.yielded # <<>>
          /\ obs'[a].raised = obs[a].raised + 1 ) =>
          /\ call'[a].pc = "idle"
          /\ outcome'[a].kind = "error"
          /\ outcome'[a].error = "StreamError"
          /\ outcome'[a].chunks = f.yielded
          /\ chat_messages' = chat_messages
          /\ chat_sessions' = chat_sessions
          /\ RoleCount(a, "assistant") = 0
          /\ agent[a].session_id # NoneVal =>
               /\ Len(RowsOfCall(a)) = 1
               /\ RowsOfCall(a)[1].role = "user"
               /\ RowsOfCall(a)[1].content = f.instructions ]_vars

\* C38 witness: the consumer of a stream on a session got two chunks and
\* then the error of the stream.
C38_Witness ==
  \E a \in Agents :
    /\ agent[a].stream
    /\ agent[a].session_id # NoneVal
    /\ call[a].pc = "idle"
    /\ outcome[a].kind = "error"
    /\ outcome[a].cause = "StreamError"
    /\ Len(outcome[a].chunks) = 2
    /\ Len(chat_messages) = 1

\* the model call of the frame has come to its end without a text: a falsy
\* response or a response without text (reply), no chunk or a last chunk
\* without text (stream_reply)
EndedWithoutText(ag, f) ==
  IF ag.stream
  THEN f.yielded = <<>> \/ res_to_text(f.yielded[Len(f.yielded)]) = EmptyText
  ELSE res_to_text(f.response) = EmptyText

\* C39: when the model gives a falsy response or a response whose text is
\* empty, or the stream ends without a chunk or with a last chunk of empty
\* text, the attempt goes on to its normal end without an assistant write,
\* the call completes without an error and without a retry, and with a
\* session key the user row of the attempt stays the last row of the store.
C39_NoTextNoAssistantRow ==
  /\ [][ \A a \in Agents :
           LET f == call[a]
               g == call'[a]
           IN /\ ( /\ f.pc \in {"model", "chunks"}
                   /\ g.pc \notin {"chunks", "idle", "wait"}
                   /\ EndedWithoutText(agent[a], g) ) =>
                   /\ g.pc = "return"
                   /\ chat_messages' = chat_messages
                   /\ obs'[a].raised = obs[a].raised
              /\ f.pc = "return" =>
                   /\ g.pc = "idle"
                   /\ outcome'[a].kind = IF agent[a].stream THEN "completed" ELSE "response"
                   /\ outcome'[a].error = NoneVal
                   /\ obs'[a].raised = obs[a].raised
                   /\ chat_messages' = chat_messages ]_vars
  /\ [](\A a \in Agents :
          ( /\ call[a].pc = "return"
            /\ EndedWithoutText(agent[a], call[a])
            /\ agent[a].session_id # NoneVal ) =>
            LET rows == RowsOfCall(a) IN
            /\ rows # <<>>
            /\ rows[Len(rows)].role = "user"
            /\ rows[Len(rows)].content = call[a].instructions
            /\ obs[a].raised = 0 => Len(rows) = 1)

\* C39 witness: a stream on a session has ended normally after two chunks
\* the last of which has no text; the store holds the user row only.
C39_Witness ==
  \E a \in Agents :
    /\ agent[a].stream
    /\ agent[a].session_id # NoneVal
    /\ call[a].pc = "idle"
    /\ outcome[a].kind = "completed"
    /\ Len(outcome[a].chunks) = 2
    /\ res_to_text(outcome[a].chunks[1]) # EmptyText
    /\ res_to_text(outcome[a].chunks[2]) = EmptyText
    /\ Len(chat_messages) = 1
    /\ chat_messages[1].role = "user"

\* the message inserted last into the session pk (its rows in insertion order)
NewestMessageId(pk) ==
  LET idx == {i \in 1..Len(chat_messages) : chat_messages[i].session_id = pk}
  IN IF idx = {} THEN NoId
     ELSE chat_messages[CHOOSE i \in idx : \A j \in idx : j <= i].id

\* C40: in every store state, also while two instances write messages to the
\* same session, the last_msg_id of a session is empty or the id of a message
\* of that session.
C40_PointerInOwnSession ==
  \A i \in 1..Len(chat_sessions) :
    LET s == chat_sessions[i] IN
    \/ s.last_msg_id = NoId
    \/ \E m \in Range(chat_messages) : m.id = s.last_msg_id /\ m.session_id = s.id

\* C40 witness: both instances have finished their turn on the same session
\* without any failure, and the pointer of the session refers to a message of
\* the session that is not the one inserted last.
C40_Witness ==
  /\ \A a \in Clients : call[a].pc = "idle" /\ obs[a].calls = 1 /\ obs[a].raised = 0
  /\ Len(chat_sessions) = 1
  /\ chat_sessions[1].last_msg_id # NoId
  /\ chat_sessions[1].last_msg_id # NewestMessageId(chat_sessions[1].id)
  /\ \E m \in Range(chat_messages) :
       m.id = chat_sessions[1].last_msg_id /\ m.session_id = chat_sessions[1].id

====
